---- MODULE Spec2Model ----
(***************************************************************************)
(* A model of ld-relay's per-environment runtime (relayenv.NewEnvContext   *)
(* and envContextImpl) and of the big-segment store and synchronizer as    *)
(* exercised by internal/core/bigsegments/sync_test.go.                    *)
(***************************************************************************)
EXTENDS Integers, Sequences, FiniteSets, TLC

VARIABLES
    \* ---- environment context (internal/relayenv/env_context_impl.go)
    envRet,          \* what NewEnvContext returned: "none" (not called), "ok", "error"
    envErr,          \* which step made NewEnvContext fail: "none", "http", "publisher", "metrics"
    cfg,             \* the arguments of the call the init goroutine captured
    client,          \* envContextImpl.client
    initErr,         \* envContextImpl.initErr
    metricsEnv,      \* envContextImpl.metricsEnv
    envStreams,      \* [opened |-> 0/1, closes |-> number of Close() calls on the EnvStreams]
    dispatcher,      \* the EventDispatcher built for the context: "none", "open"
    evPublisher,     \* the HttpEventPublisher built for the context: "none", "open"
    metricsReg,      \* [added |-> AddEnvironment calls, removed |-> RemoveEnvironment calls]
    factoryCalls,    \* times clientFactory was invoked
    initPc,          \* position of the init goroutine
    facClient,       \* goroutine local: client returned by clientFactory
    facErr,          \* goroutine local: err returned by clientFactory
    readyCh,         \* contexts sent on readyCh and not yet received
    readySent,       \* number of sends on readyCh so far
    observed,        \* what the receiver of readyCh read from the context on each receipt
    procExited,      \* os.Exit(1) was called
    closeCalls,      \* number of envContextImpl.Close calls that returned
    sdkClient,       \* the SDK client object clientFactory made: "none", "open", "closed"
    obsPc,           \* a goroutine holding the context: "idle", or inside "GetInitError"
    obsRead,         \* what that goroutine's latest GetInitError returned
    \* ---- big-segment store (bigSegmentStoreMock, sync_test.go)
    cursor,          \* bigSegmentStoreMock.cursor
    patchCh,         \* bigSegmentStoreMock.patchCh: the patches applied, not yet received
    syncTimeCh,      \* bigSegmentStoreMock.syncTimeCh
    storeLock,       \* bigSegmentStoreMock.lock: NoHolder or the goroutine holding it
    apc,             \* per calling goroutine: its position inside applyPatch
    aarg,            \* per calling goroutine: the patch it passed
    acur,            \* per calling goroutine: the cursor when it took the lock
    calls,           \* completed applyPatch calls, in the order they returned
    \* ---- big-segment synchronizer (the worker started by segmentSync.Start)
    syncPc,          \* position of the worker
    phase,           \* which of the cycle's poll loops the worker is in: 1 or 2
    cycle,           \* sync cycles started so far
    pollCount,       \* poll requests issued so far
    lastQuery,       \* URL.RawQuery of the latest poll request
    lastQueryCursor, \* the store's cursor when that request was built
    resp,            \* progress through the latest poll response
    brk,             \* the latest poll response's first non-matching patch, if any
    warnings,        \* [count, last]: warnings logged, the previousVersion the last one names
    streamConnects,  \* stream requests issued so far
    streamOpen,      \* the worker holds an open stream connection
    streamEvents,    \* patch events read from streams so far
    lastStream,      \* the latest patch event read from the stream and what became of it
    cyc,             \* what happened in the current cycle
    restart,         \* progress after the latest stream mismatch
    firstPoll,       \* "none" until the first poll response ended, then "empty" or "nonEmpty"
    trouble,         \* a stream mismatch or stream I/O error has happened
    syncClose,       \* segmentSync.Close: "none", "called" (waiting for the worker), "returned"
    closedFrom,      \* where the worker was when Close was called
    sinceErr,        \* since the latest stream I/O error: "none", "needPoll", "polled"
    \* ---- one HTTP request through the router (RelayCore.MakeRouter, getEventsImage)
    req,             \* the request and what its environment holds
    reqPc,           \* position of the request: "idle", "chain", "imageWrite", "done"
    chainIdx,        \* the next middleware of the matched route's chain
    trace,           \* the middleware that ran for the request, in order
    resolutions,     \* times a selector put an environment context into the request
    envCtx,          \* [env, err]: the environment the request resolved to, or why not
    handlerRuns,     \* times the route's handler was invoked
    response,        \* what was written to the ResponseWriter
    sub,             \* the goroutine of getEventsImage: "none", "spawned", "running", "ok", "failed"
    submissions,     \* calls made to the JS events handler
    credCall,        \* the latest getSDKCredential call and its result
    eventsReq,       \* the header of the POST getEventsImage's goroutine handed to the handler
    statusKey,       \* the SDK or mobile key of an environment a /status request reports
    statusDoc,       \* that key as the /status document shows it
    \* ---- stream publishers (streams.Publishers, bound in NewEnvContext)
    pubLog,          \* per topic: the patch/delete events the publisher received, in order
    subTopic,        \* per subscriber: the topic it connected to
    subState,        \* per subscriber: "none", "connected", "dropped", "gone"
    subQueue,        \* per subscriber: its channel of events not yet written
    subReceived,     \* per subscriber: the events written to its connection, in order
    subSince,        \* per subscriber: how many events its topic had when it connected
    \* ---- the environments of one relay, created on one set of publishers
    ctx,             \* per environment: the envContextImpl its NewEnvContext call is building
    storeQuery       \* the latest call of an envContextStoreQueries method and its outcome

varsEnv == <<envRet, envErr, cfg, client, initErr, metricsEnv, envStreams, dispatcher,
             evPublisher, metricsReg, factoryCalls, initPc, facClient, facErr, readyCh,
             readySent, observed, procExited, closeCalls, sdkClient, obsPc, obsRead>>

\* The goroutine that calls the context's accessors on its own.
varsObs == <<obsPc, obsRead>>

varsStore == <<cursor, patchCh, syncTimeCh>>

varsApply == <<storeLock, apc, aarg, acur, calls>>

varsSync == <<syncPc, phase, cycle, pollCount, lastQuery, lastQueryCursor, resp, brk,
              warnings, streamConnects, streamOpen, streamEvents, lastStream, cyc, restart,
              firstPoll, trouble, syncClose, closedFrom, sinceErr>>

varsHttp == <<req, reqPc, chainIdx, trace, resolutions, envCtx, handlerRuns, response, sub,
              submissions, credCall, eventsReq, statusKey, statusDoc>>

varsPub == <<pubLog, subTopic, subState, subQueue, subReceived, subSince>>

\* Events published on all topics so far.
PublishedCount == Len(pubLog["sdk-1"]) + Len(pubLog["sdk-2"])

varsRelay == <<ctx, storeQuery>>

vars == <<varsEnv, varsStore, varsApply, varsSync, varsHttp, varsPub, varsRelay>>

\* Everything that is not part of the environment context.
notEnv == <<varsStore, varsApply, varsSync, varsHttp, varsPub, varsRelay>>

\* ------------------------------------------------------------------ bounds

\* Close calls made on one context.
MaxCloseCalls == 2

\* applyPatch calls made by the concurrent callers of the store.
MaxCalls == 3

\* Poll requests the poll server answers.
MaxPolls == 4

\* Patches in one poll response.
MaxPollLen == 3

\* Patch events the stream servers deliver.
MaxStreamEvents == 2

\* Patches patchCh holds before a send on it blocks (the test makes room for 100).
MaxPatchCh == 3

\* Events published to the stream publisher.
MaxPublished == 3

\* Events a subscriber's channel holds before the subscriber is dropped.
MaxQueue == 2

\* ------------------------------------------------------------------ values

NoClient == "nilClient"
NoErr == "nilErr"
NoMetricsEnv == "nilEnvManager"

\* config.ProxyConfig values handed to NewHTTPConfig.
ProxyConfigs ==
    [Url : {"", "http://proxy"}, NtlmAuth : BOOLEAN, User : {"", "user"},
     Password : {"", "pw"}]

\* What clientFactory can return: a client and no error, or an error with or without
\* a (partially initialized) client.
FactoryResults ==
    { [client |-> "client1", err |-> NoErr],
      [client |-> NoClient, err |-> "initError"],
      [client |-> "client1", err |-> "initError"] }

\* bigSegmentPatch.Version / PreviousVersion values; "" is the cursor of an empty store.
Versions == {"", "1", "2"}

\* bigSegmentPatch, reduced to the two fields the store reads. A patch carries a
\* version of its own; its previousVersion is empty for the first patch of a chain.
PatchSet == [Version : Versions \ {""}, PreviousVersion : Versions]

\* The zero value of bigSegmentPatch.
NoPatch == [Version |-> "", PreviousVersion |-> ""]

\* Goroutines calling the store concurrently.
Callers == {"g1", "g2"}

NoHolder == "unlocked"

\* ------------------------------------------------------------------ httpconfig

\* NewHTTPConfig: the error it returns for a proxy configuration ("" when none).
\* url.Parse and the SDK's own factories are taken to succeed.
NewHTTPConfigError(proxy) ==
    IF proxy.Url = "" /\ proxy.NtlmAuth
    THEN "Cannot specify proxy authentication without a proxy URL"
    ELSE IF proxy.NtlmAuth /\ (proxy.User = "" \/ proxy.Password = "")
    THEN "NTLM proxy authentication requires username and password"
    ELSE ""

\* ------------------------------------------------------------------ env context

InitEnv ==
    /\ envRet = "none"
    /\ envErr = "none"
    /\ cfg = [ignoreConnectionErrors |-> FALSE, exitOnError |-> FALSE,
              readyChNil |-> TRUE, metricsManagerNil |-> TRUE]
    /\ client = NoClient
    /\ initErr = NoErr
    /\ metricsEnv = NoMetricsEnv
    /\ envStreams = [opened |-> 0, closes |-> 0]
    /\ dispatcher = "none"
    /\ evPublisher = "none"
    /\ metricsReg = [added |-> 0, removed |-> 0]
    /\ factoryCalls = 0
    /\ initPc = "none"
    /\ facClient = NoClient
    /\ facErr = NoErr
    /\ readyCh = <<>>
    /\ readySent = 0
    /\ observed = <<>>
    /\ procExited = FALSE
    /\ closeCalls = 0
    /\ sdkClient = "none"
    /\ obsPc = "idle"
    /\ obsRead = NoErr

\* lines 112-117: the dispatcher exists only with Events.SendEvents.
NewEventDispatcher(sendEvents) == IF sendEvents THEN "open" ELSE "none"

\* util.CleanupTasks.Run over the tasks registered so far: AddCloser(envStreams)
\* closes the streams, the AddFunc of line 146 removes the metrics environment.
CleanupRun(tasks, streams, reg) ==
    [streams |-> IF "envStreams" \in tasks
                 THEN [streams EXCEPT !.closes = @ + 1] ELSE streams,
     reg |-> IF "removeMetricsEnv" \in tasks
             THEN [reg EXCEPT !.removed = @ + 1] ELSE reg]

\* A variant without the Clear of line 183.
TasksAtReturn_NotCleared(failedStep) ==
    IF failedStep = "http" THEN {}
    ELSE IF failedStep = "none" THEN {"envStreams", "removeMetricsEnv"}
    ELSE {"envStreams"}

\* The tasks thingsToCleanUp holds when the deferred Run of line 68 executes: nothing
\* before line 107, AddCloser(envStreams) from there on, and nothing again after the
\* Clear of line 183, which follows the AddFunc of line 146.
TasksAtReturn(failedStep) ==
    IF failedStep \in {"publisher", "metrics"} THEN {"envStreams"} ELSE {}

\* A variant that starts the init goroutine before the error returns.
InitTaskAfter_StartedEarly(failedStep) == "factory"

\* lines 80, 135, 142 and 156: the init goroutine is started by the go statement of
\* line 156 only, which no path that returned an error reached.
InitTaskAfter(failedStep) == IF failedStep = "none" THEN "factory" ELSE "none"

\* NewEnvContext, lines 56-186, up to and including its return; the deferred
\* thingsToCleanUp.Run() is part of it.
NewEnvContext(proxy, ignore, exitOn, readyNil, sendEvents, publisherOK, mgrNil, addEnvOK) ==
    /\ envRet = "none"
    /\ ~procExited
    /\ cfg' = [ignoreConnectionErrors |-> ignore, exitOnError |-> exitOn,
               readyChNil |-> readyNil, metricsManagerNil |-> mgrNil]
    /\ IF NewHTTPConfigError(proxy) # ""
       THEN \* line 80: nothing was allocated yet
            /\ envRet' = "error" /\ envErr' = "http"
            /\ initPc' = InitTaskAfter("http")
            /\ UNCHANGED <<envStreams, dispatcher, evPublisher, metricsReg, metricsEnv>>
       ELSE LET streams1 == [opened |-> 1, closes |-> 0]          \* lines 97-107
                disp1 == NewEventDispatcher(sendEvents)           \* lines 112-117
            IN  IF ~publisherOK
                THEN \* line 135: cleanup holds the env streams only
                     LET c == CleanupRun(TasksAtReturn("publisher"), streams1, metricsReg)
                     IN  /\ envRet' = "error" /\ envErr' = "publisher"
                         /\ envStreams' = c.streams
                         /\ metricsReg' = c.reg
                         /\ dispatcher' = disp1
                         /\ initPc' = InitTaskAfter("publisher")
                         /\ UNCHANGED <<evPublisher, metricsEnv>>
                ELSE IF ~mgrNil /\ ~addEnvOK
                THEN \* line 142
                     LET c == CleanupRun(TasksAtReturn("metrics"), streams1, metricsReg)
                     IN  /\ envRet' = "error" /\ envErr' = "metrics"
                         /\ envStreams' = c.streams
                         /\ metricsReg' = c.reg
                         /\ dispatcher' = disp1
                         /\ evPublisher' = "open"
                         /\ initPc' = InitTaskAfter("metrics")
                         /\ UNCHANGED metricsEnv
                ELSE \* lines 145-185: the goroutine is started, the cleanup list is
                     \* cleared, so the deferred Run does nothing
                     LET c == CleanupRun(TasksAtReturn("none"), streams1,
                                         IF mgrNil THEN metricsReg
                                         ELSE [metricsReg EXCEPT !.added = @ + 1])
                     IN  /\ envRet' = "ok" /\ envErr' = "none"
                         /\ envStreams' = c.streams
                         /\ metricsReg' = c.reg
                         /\ dispatcher' = disp1
                         /\ evPublisher' = "open"
                         /\ metricsEnv' = IF mgrNil THEN NoMetricsEnv ELSE "em"
                         /\ initPc' = InitTaskAfter("none")
    /\ UNCHANGED notEnv
    /\ UNCHANGED sdkClient
    /\ UNCHANGED varsObs
    /\ UNCHANGED <<client, initErr, factoryCalls, facClient, facErr, readyCh, readySent,
                   observed, procExited, closeCalls>>

CallNewEnvContext ==
    \E proxy \in ProxyConfigs, ignore \in BOOLEAN, exitOn \in BOOLEAN, readyNil \in BOOLEAN,
       sendEvents \in BOOLEAN, publisherOK \in BOOLEAN, mgrNil \in BOOLEAN,
       addEnvOK \in BOOLEAN :
        NewEnvContext(proxy, ignore, exitOn, readyNil, sendEvents, publisherOK, mgrNil,
                      addEnvOK)

\* ---- accessors

\* envContextImpl.GetClient
GetClient == client

\* envContextImpl.GetInitError
GetInitError == initErr

\* ---- the init goroutine, lines 156-181

\* The state of the SDK client object behind a value clientFactory returned: a client
\* that was made is open until somebody calls its Close.
ClientObject(c) == IF c = NoClient THEN "none" ELSE "open"

\* line 157: client, err := clientFactory(envConfig.SDKKey, clientConfig)
InitCallFactory ==
    /\ initPc = "factory"
    /\ ~procExited
    /\ \E r \in FactoryResults :
        /\ facClient' = r.client
        /\ facErr' = r.err
    /\ factoryCalls' = factoryCalls + 1
    /\ initPc' = "setClient"
    /\ sdkClient' = ClientObject(facClient')
    /\ UNCHANGED varsObs
    /\ UNCHANGED notEnv
    /\ UNCHANGED <<envRet, envErr, cfg, client, initErr, metricsEnv, envStreams, dispatcher,
                   evPublisher, metricsReg, readyCh, readySent, observed, procExited,
                   closeCalls>>

\* envContextImpl.SetClient: the value the client field holds after the call.
SetClient(newClient) == newClient

\* line 158: envContext.SetClient(client)
InitSetClient ==
    /\ initPc = "setClient"
    /\ ~procExited
    /\ client' = SetClient(facClient)
    /\ initPc' = "checkErr"
    /\ UNCHANGED notEnv
    /\ UNCHANGED sdkClient
    /\ UNCHANGED varsObs
    /\ UNCHANGED <<envRet, envErr, cfg, initErr, metricsEnv, envStreams, dispatcher,
                   evPublisher, metricsReg, factoryCalls, facClient, facErr, readyCh,
                   readySent, observed, procExited, closeCalls>>

\* A variant that keeps the previous initErr instead of storing the factory's error.
RecordedInitErr_Dropped(err, old) == old

\* lines 160-161: the value of envContext.initErr after the error check.
RecordedInitErr(err, old) == IF err # NoErr THEN err ELSE old

\* A variant that tests ExitOnError before IgnoreConnectionErrors.
BranchAfterFactory_ExitWhenIgnored(err, ignore, exitOn) ==
    IF err # NoErr
    THEN IF exitOn THEN "exit"
         ELSE IF ~ignore THEN "sendErr" ELSE "send"
    ELSE "send"

\* lines 160-177: where the goroutine goes after the error check.
\*   "exit"    os.Exit(1), line 166
\*   "sendErr" the send of lines 168-170
\*   "send"    the send of lines 178-180
BranchAfterFactory(err, ignore, exitOn) ==
    IF err # NoErr
    THEN IF ~ignore
         THEN IF exitOn THEN "exit" ELSE "sendErr"
         ELSE "send"
    ELSE "send"

InitCheckErr ==
    /\ initPc = "checkErr"
    /\ ~procExited
    /\ initErr' = RecordedInitErr(facErr, initErr)
    /\ LET b == BranchAfterFactory(facErr, cfg.ignoreConnectionErrors, cfg.exitOnError)
       IN  IF b = "exit"
           THEN /\ procExited' = TRUE
                /\ initPc' = "exited"
           ELSE /\ initPc' = b
                /\ UNCHANGED procExited
    /\ UNCHANGED notEnv
    /\ UNCHANGED sdkClient
    /\ UNCHANGED varsObs
    /\ UNCHANGED <<envRet, envErr, cfg, client, metricsEnv, envStreams, dispatcher,
                   evPublisher, metricsReg, factoryCalls, facClient, facErr, readyCh,
                   readySent, observed, closeCalls>>

\* readyCh <- envContext, guarded by readyCh != nil.
SendReady ==
    IF cfg.readyChNil
    THEN UNCHANGED <<readyCh, readySent>>
    ELSE /\ readyCh' = Append(readyCh, "envContext")
         /\ readySent' = readySent + 1

\* A variant without the return of line 171: control falls through to line 178.
AfterErrorSend_NoReturn == "send"

\* line 171: return
AfterErrorSend == "done"

\* lines 168-171
InitSendReadyErr ==
    /\ initPc = "sendErr"
    /\ ~procExited
    /\ SendReady
    /\ initPc' = AfterErrorSend
    /\ UNCHANGED notEnv
    /\ UNCHANGED sdkClient
    /\ UNCHANGED varsObs
    /\ UNCHANGED <<envRet, envErr, cfg, client, initErr, metricsEnv, envStreams, dispatcher,
                   evPublisher, metricsReg, factoryCalls, facClient, facErr, observed,
                   procExited, closeCalls>>

\* lines 178-181
InitSendReady ==
    /\ initPc = "send"
    /\ ~procExited
    /\ SendReady
    /\ initPc' = "done"
    /\ UNCHANGED notEnv
    /\ UNCHANGED sdkClient
    /\ UNCHANGED varsObs
    /\ UNCHANGED <<envRet, envErr, cfg, client, initErr, metricsEnv, envStreams, dispatcher,
                   evPublisher, metricsReg, factoryCalls, facClient, facErr, observed,
                   procExited, closeCalls>>

\* The owner of readyCh receives a context and reads its client and init error.
RecvReady ==
    /\ readyCh # <<>>
    /\ ~procExited
    /\ readyCh' = Tail(readyCh)
    /\ observed' = Append(observed, [client |-> GetClient, err |-> GetInitError])
    /\ UNCHANGED notEnv
    /\ UNCHANGED sdkClient
    /\ UNCHANGED varsObs
    /\ UNCHANGED <<envRet, envErr, cfg, client, initErr, metricsEnv, envStreams, dispatcher,
                   evPublisher, metricsReg, factoryCalls, initPc, facClient, facErr,
                   readySent, procExited, closeCalls>>

\* envContextImpl.Close, lines 251-257: envStreams.Close() and, with a metrics manager
\* and a metrics environment, RemoveEnvironment; the client field is not read and
\* nothing records that the context was closed.
Close ==
    /\ envRet = "ok"
    /\ ~procExited
    /\ closeCalls < MaxCloseCalls
    /\ envStreams' = [envStreams EXCEPT !.closes = @ + 1]
    /\ metricsReg' = IF ~cfg.metricsManagerNil /\ metricsEnv # NoMetricsEnv
                     THEN [metricsReg EXCEPT !.removed = @ + 1]
                     ELSE metricsReg
    /\ closeCalls' = closeCalls + 1
    /\ UNCHANGED notEnv
    /\ UNCHANGED sdkClient
    /\ UNCHANGED varsObs
    /\ UNCHANGED <<envRet, envErr, cfg, client, initErr, metricsEnv, dispatcher, evPublisher,
                   factoryCalls, initPc, facClient, facErr, readyCh, readySent, observed,
                   procExited>>

\* ---- a goroutine that holds the returned context and calls GetInitError

\* The places that read or write a field of envContextImpl with c.mu held
\* (lines 188-249): GetName, GetClient, SetClient, GetTTL, IsSecureMode.
HoldsLock(site) ==
    site \in {"GetName:192", "GetClient:202", "SetClient:208", "GetTTL:237",
              "IsSecureMode:248"}

\* line 161 is the goroutine's next statement: envContext.initErr = err
InitWritesInitErrNext == initPc = "checkErr" /\ facErr # NoErr

\* What the read of line 241 can return. It is ordered with the write of line 161 by
\* nothing, so while that write is pending the read may see the old value, the new
\* one, or an interface value torn between the two.
GetInitErrorOutcomes ==
    IF InitWritesInitErrNext /\ ~(HoldsLock("NewEnvContext:161") /\ HoldsLock("GetInitError:241"))
    THEN {initErr, facErr, "tornInterface"}
    ELSE {GetInitError}

\* The goroutine enters GetInitError (line 240); no lock is taken.
ObsCallGetInitError ==
    /\ envRet = "ok"
    /\ ~procExited
    /\ obsPc = "idle"
    /\ obsPc' = "GetInitError"
    /\ UNCHANGED notEnv
    /\ UNCHANGED sdkClient
    /\ UNCHANGED obsRead
    /\ UNCHANGED <<envRet, envErr, cfg, client, initErr, metricsEnv, envStreams, dispatcher,
                   evPublisher, metricsReg, factoryCalls, initPc, facClient, facErr,
                   readyCh, readySent, observed, procExited, closeCalls>>

\* line 241: return c.initErr
ObsReturnGetInitError ==
    /\ obsPc = "GetInitError"
    /\ ~procExited
    /\ \E v \in GetInitErrorOutcomes : obsRead' = v
    /\ obsPc' = "idle"
    /\ UNCHANGED notEnv
    /\ UNCHANGED sdkClient
    /\ UNCHANGED <<envRet, envErr, cfg, client, initErr, metricsEnv, envStreams, dispatcher,
                   evPublisher, metricsReg, factoryCalls, initPc, facClient, facErr,
                   readyCh, readySent, observed, procExited, closeCalls>>

\* ------------------------------------------------------------------ big-segment store

InitStore ==
    /\ cursor = ""
    /\ patchCh = <<>>
    /\ syncTimeCh = <<>>
    /\ storeLock = NoHolder
    /\ apc = [g \in Callers |-> "idle"]
    /\ aarg = [g \in Callers |-> NoPatch]
    /\ acur = [g \in Callers |-> ""]
    /\ calls = <<>>

\* A variant that applies every patch, whatever its previousVersion.
PatchMatches_Always(cur, patch) == TRUE

\* line 33, negated: the patch chains from the cursor.
PatchMatches(cur, patch) == cur = patch.PreviousVersion

\* A variant of the store without mutual exclusion.
LockAvailable_NoLock(holder) == TRUE

\* sync.Mutex: Lock() proceeds only when nobody holds the mutex.
LockAvailable(holder) == holder = NoHolder

\* line 30: s.lock.Lock()
ApplyLock(g, patch) ==
    /\ apc[g] = "idle"
    /\ Len(calls) + Cardinality({h \in Callers : apc[h] # "idle"}) < MaxCalls
    /\ LockAvailable(storeLock)
    /\ storeLock' = g
    /\ apc' = [apc EXCEPT ![g] = "check"]
    /\ aarg' = [aarg EXCEPT ![g] = patch]
    /\ acur' = [acur EXCEPT ![g] = cursor]
    /\ UNCHANGED <<varsRelay, varsEnv, varsHttp, varsPub, varsStore, varsSync, calls>>

\* What a return from applyPatch does: the deferred Unlock (line 31) and the result.
ApplyReturn(g, applied) ==
    /\ storeLock' = IF storeLock = g THEN NoHolder ELSE storeLock
    /\ apc' = [apc EXCEPT ![g] = "idle"]
    /\ calls' = Append(calls, [patch |-> aarg[g], cursorBefore |-> acur[g],
                               applied |-> applied, cursorAfter |-> cursor])
    /\ UNCHANGED <<aarg, acur>>

\* lines 33-35: the comparison, and the return of (false, nil)
ApplyCheck(g) ==
    /\ apc[g] = "check"
    /\ IF PatchMatches(cursor, aarg[g])
       THEN /\ apc' = [apc EXCEPT ![g] = "set"]
            /\ UNCHANGED <<storeLock, aarg, acur, calls>>
       ELSE ApplyReturn(g, FALSE)
    /\ UNCHANGED <<varsRelay, varsEnv, varsHttp, varsPub, varsStore, varsSync>>

\* lines 36-38: s.cursor = patch.Version; s.patchCh <- patch
ApplySet(g) ==
    /\ apc[g] = "set"
    /\ Len(patchCh) < MaxPatchCh
    /\ cursor' = aarg[g].Version
    /\ patchCh' = Append(patchCh, aarg[g])
    /\ apc' = [apc EXCEPT ![g] = "return"]
    /\ UNCHANGED <<varsRelay, varsEnv, varsHttp, varsPub, varsSync, syncTimeCh, storeLock, aarg, acur, calls>>

\* line 40: return true, nil
ApplyDone(g) ==
    /\ apc[g] = "return"
    /\ ApplyReturn(g, TRUE)
    /\ UNCHANGED <<varsRelay, varsEnv, varsHttp, varsPub, varsStore, varsSync>>

\* bigSegmentStoreMock.getCursor
getCursor == cursor

NextStore ==
    \/ \E g \in Callers, patch \in PatchSet : ApplyLock(g, patch)
    \/ \E g \in Callers : ApplyCheck(g)
    \/ \E g \in Callers : ApplySet(g)
    \/ \E g \in Callers : ApplyDone(g)

\* ------------------------------------------------------------------ synchronizer

\* applyPatch as one step, for a caller that never contends for the lock: the result,
\* the cursor and the channel after the call (lines 29-41).
\* The send on patchCh (line 38) proceeds only while the channel has room.
CanApply(cur, ch, patch) == PatchMatches(cur, patch) => Len(ch) < MaxPatchCh

applyPatch(cur, ch, patch) ==
    IF PatchMatches(cur, patch)
    THEN [applied |-> TRUE, cursor |-> patch.Version, patchCh |-> Append(ch, patch)]
    ELSE [applied |-> FALSE, cursor |-> cur, patchCh |-> ch]

\* A variant that records nothing.
setSynchronizedOn_Dropped(ch, t) == ch

\* bigSegmentStoreMock.setSynchronizedOn, lines 50-54
setSynchronizedOn(ch, t) == Append(ch, t)

\* A variant that never sends the cursor.
QueryFor_NoCursor(cur) == ""

\* The query of a poll request for a cursor, as assertPollRequest expects it.
QueryFor(cur) == IF cur = "" THEN "" ELSE "after=" \o cur

\* A variant that takes every poll response for the last one.
PollDone_Always(n) == TRUE

\* A poll ends the poll loop when its response held no patch.
PollDone(n) == n = 0

\* A variant that goes on with the list after a patch was not applied.
SkipRest_Never(skipping, applied) == FALSE

\* Once a patch of a poll response is not applied, the rest of the list is dropped.
SkipRest(skipping, applied) == skipping \/ ~applied

\* A variant with a single poll loop: synchronizedOn right after the first empty poll.
AfterEmptyPoll_SinglePhase(ph) == "setSync"

\* Where the worker goes when a poll loop ends: after the first loop it connects the
\* stream and polls again; after the second it records synchronizedOn.
AfterEmptyPoll(ph) == IF ph = 1 THEN "connect" ELSE "setSync"

\* A variant that reconnects the stream at once.
AfterStreamMismatch_Reconnect == "connect"

\* Where the worker goes after a streamed patch was not applied: back to polling.
AfterStreamMismatch == "poll"

NewCycle == [emptyPolls |-> 0, pollsAfterEmpty |-> 0, synced |-> 0, pollsAfterSync |-> 0,
             streamApplied |-> 0, streamAppliedUnsynced |-> 0]

NoBreak == [active |-> FALSE, cursor |-> "", len |-> 0, prev |-> "", idx |-> 0,
            laterMatch |-> FALSE]

InitSync ==
    /\ syncPc = "idle"
    /\ phase = 1
    /\ cycle = 0
    /\ pollCount = 0
    /\ lastQuery = ""
    /\ lastQueryCursor = ""
    /\ resp = [idx |-> 0, applied |-> 0, skipping |-> FALSE, afterBreak |-> FALSE,
               breakCursor |-> ""]
    /\ brk = NoBreak
    /\ warnings = [count |-> 0, last |-> ""]
    /\ streamConnects = 0
    /\ streamOpen = FALSE
    /\ streamEvents = 0
    /\ lastStream = [seen |-> FALSE, patch |-> NoPatch, cursorBefore |-> "",
                     applied |-> FALSE, cursorAfter |-> ""]
    /\ cyc = NewCycle
    /\ restart = [state |-> "none", cursor |-> "", query |-> ""]
    /\ firstPoll = "none"
    /\ trouble = FALSE
    /\ syncClose = "none"
    /\ closedFrom = "none"
    /\ sinceErr = "none"

\* Close was called: the poll timer and the stream connection are cancelled, so the
\* worker sends no request, reads nothing from the stream and does not sleep on.
Cancelled == syncClose # "none"

\* segmentSync.Start(): the worker begins its first cycle.
Start ==
    /\ syncPc = "idle"
    /\ syncPc' = "poll"
    /\ phase' = 1
    /\ cycle' = 1
    /\ cyc' = NewCycle
    /\ UNCHANGED <<varsRelay, varsEnv, varsHttp, varsPub, syncClose, closedFrom, sinceErr,
                   varsStore, varsApply, pollCount, lastQuery, lastQueryCursor,
                   resp, brk, warnings, streamConnects, streamOpen, streamEvents,
                   lastStream, restart, firstPoll, trouble>>

\* poll(): the request, built from the store's cursor.
PollRequest ==
    /\ syncPc = "poll"
    /\ ~Cancelled
    /\ pollCount < MaxPolls
    /\ lastQuery' = QueryFor(getCursor)
    /\ lastQueryCursor' = getCursor
    /\ pollCount' = pollCount + 1
    /\ resp' = [idx |-> 0, applied |-> 0, skipping |-> FALSE, afterBreak |-> brk.active,
                breakCursor |-> brk.cursor]
    /\ brk' = NoBreak
    /\ cyc' = [cyc EXCEPT !.pollsAfterEmpty = IF cyc.emptyPolls > 0 THEN @ + 1 ELSE @,
                          !.pollsAfterSync = IF cyc.synced > 0 THEN @ + 1 ELSE @]
    /\ restart' = IF restart.state = "needPoll"
                  THEN [restart EXCEPT !.state = "polled", !.query = QueryFor(getCursor)]
                  ELSE restart
    /\ sinceErr' = IF sinceErr = "needPoll" THEN "polled" ELSE sinceErr
    /\ syncPc' = "pollBody"
    /\ UNCHANGED <<varsRelay, varsEnv, varsHttp, varsPub, syncClose, closedFrom,
                   varsStore, varsApply, phase, cycle, warnings, streamConnects,
                   streamOpen, streamEvents, lastStream, firstPoll, trouble>>

\* poll(): the next patch of the response list, in list order.
PollItem(patch) ==
    /\ syncPc = "pollBody"
    /\ resp.idx < MaxPollLen
    /\ IF resp.skipping
       THEN \* the patch is in the dropped rest of the list
            /\ resp' = [resp EXCEPT !.idx = @ + 1]
            /\ brk' = [brk EXCEPT !.laterMatch = @ \/ PatchMatches(cursor, patch)]
            /\ UNCHANGED <<cursor, patchCh, warnings>>
       ELSE LET r == applyPatch(cursor, patchCh, patch)
            IN  /\ CanApply(cursor, patchCh, patch)
                /\ cursor' = r.cursor
                /\ patchCh' = r.patchCh
                /\ resp' = [resp EXCEPT !.idx = @ + 1,
                                        !.applied = IF r.applied THEN @ + 1 ELSE @,
                                        !.skipping = SkipRest(@, r.applied)]
                /\ IF r.applied
                   THEN /\ brk' = IF brk.active
                                  THEN [brk EXCEPT !.laterMatch = TRUE] ELSE brk
                        /\ UNCHANGED warnings
                   ELSE /\ warnings' = [count |-> warnings.count + 1,
                                        last |-> patch.PreviousVersion]
                        /\ brk' = IF brk.active THEN brk
                                  ELSE [active |-> TRUE, cursor |-> cursor,
                                        len |-> Len(patchCh),
                                        prev |-> patch.PreviousVersion,
                                        idx |-> resp.idx + 1, laterMatch |-> FALSE]
    /\ UNCHANGED <<varsRelay, varsEnv, varsHttp, varsPub, syncClose, closedFrom, sinceErr,
                   varsApply, syncTimeCh, syncPc, phase, cycle, pollCount,
                   lastQuery, lastQueryCursor, streamConnects, streamOpen, streamEvents,
                   lastStream, cyc, restart, firstPoll, trouble>>

\* poll(): the response list has ended; poll again unless it was empty.
PollEnd ==
    /\ syncPc = "pollBody"
    /\ firstPoll' = IF firstPoll # "none" THEN firstPoll
                    ELSE IF resp.idx = 0 THEN "empty" ELSE "nonEmpty"
    /\ IF PollDone(resp.idx)
       THEN /\ syncPc' = AfterEmptyPoll(phase)
            /\ cyc' = [cyc EXCEPT !.emptyPolls = @ + 1]
       ELSE /\ syncPc' = "poll"
            /\ UNCHANGED cyc
    /\ UNCHANGED <<varsRelay, varsEnv, varsHttp, varsPub, syncClose, closedFrom, sinceErr,
                   varsStore, varsApply, phase, cycle, pollCount, lastQuery,
                   lastQueryCursor, resp, brk, warnings, streamConnects, streamOpen,
                   streamEvents, lastStream, restart, trouble>>

\* The stream request; the second poll loop follows.
ConnectStream ==
    /\ syncPc = "connect"
    /\ ~Cancelled
    /\ streamConnects' = streamConnects + 1
    /\ streamOpen' = TRUE
    /\ phase' = 2
    /\ syncPc' = "poll"
    /\ UNCHANGED <<varsRelay, varsEnv, varsHttp, varsPub, syncClose, closedFrom, sinceErr,
                   varsStore, varsApply, cycle, pollCount, lastQuery,
                   lastQueryCursor, resp, brk, warnings, streamEvents, lastStream, cyc,
                   restart, firstPoll, trouble>>

\* store.setSynchronizedOn(now); the worker starts reading the stream.
SetSynchronizedOn ==
    /\ syncPc = "setSync"
    /\ syncTimeCh' = setSynchronizedOn(syncTimeCh, "now")
    /\ cyc' = [cyc EXCEPT !.synced = @ + 1]
    /\ syncPc' = "streaming"
    /\ UNCHANGED <<varsRelay, varsEnv, varsHttp, varsPub, syncClose, closedFrom, sinceErr,
                   varsApply, cursor, patchCh, phase, cycle, pollCount, lastQuery,
                   lastQueryCursor, resp, brk, warnings, streamConnects, streamOpen,
                   streamEvents, lastStream, restart, firstPoll, trouble>>

\* A variant that gives the stream up after every patch event.
StreamStaysOpen_Never(applied) == FALSE

\* The worker keeps reading the same stream exactly when the patch was applied.
StreamStaysOpen(applied) == applied

\* A patch event read from the stream: applied, or the stream is closed and the
\* cycle starts again.
StreamPatch(patch) ==
    /\ syncPc = "streaming"
    /\ ~Cancelled
    /\ streamEvents < MaxStreamEvents
    /\ streamEvents' = streamEvents + 1
    /\ LET r == applyPatch(cursor, patchCh, patch)
       IN  /\ CanApply(cursor, patchCh, patch)
           /\ cursor' = r.cursor
           /\ patchCh' = r.patchCh
           /\ lastStream' = [seen |-> TRUE, patch |-> patch, cursorBefore |-> cursor,
                             applied |-> r.applied, cursorAfter |-> r.cursor]
           /\ IF StreamStaysOpen(r.applied)
              THEN /\ cyc' = [cyc EXCEPT !.streamApplied = @ + 1,
                                         !.streamAppliedUnsynced =
                                             IF cyc.synced = 0 THEN @ + 1 ELSE @]
                   /\ UNCHANGED <<syncPc, phase, cycle, warnings, streamOpen, restart,
                                  trouble>>
              ELSE /\ warnings' = [count |-> warnings.count + 1,
                                   last |-> patch.PreviousVersion]
                   /\ streamOpen' = FALSE
                   /\ syncPc' = AfterStreamMismatch
                   /\ phase' = 1
                   /\ cycle' = cycle + 1
                   /\ cyc' = NewCycle
                   /\ restart' = [state |-> "needPoll", cursor |-> cursor, query |-> ""]
                   /\ trouble' = TRUE
    /\ UNCHANGED <<varsRelay, varsEnv, varsHttp, varsPub, syncClose, closedFrom, sinceErr,
                   varsApply, syncTimeCh, pollCount, lastQuery, lastQueryCursor,
                   resp, brk, streamConnects, firstPoll>>

\* An I/O error on the stream: the worker drops the connection and backs off.
StreamError ==
    /\ syncPc = "streaming"
    /\ ~Cancelled
    /\ streamOpen' = FALSE
    /\ syncPc' = "backoff"
    /\ trouble' = TRUE
    /\ sinceErr' = "needPoll"
    /\ UNCHANGED <<varsRelay, varsEnv, varsHttp, varsPub, syncClose, closedFrom,
                   varsStore, varsApply, phase, cycle, pollCount, lastQuery,
                   lastQueryCursor, resp, brk, warnings, streamConnects, streamEvents,
                   lastStream, cyc, restart, firstPoll>>

\* A variant that reconnects the stream when the retry interval has passed.
AfterBackoff_Reconnect == "connect"

\* Where the worker goes when the retry interval has passed: back to polling.
AfterBackoff == "poll"

\* streamRetryInterval has passed: the next cycle starts with a poll.
BackoffElapsed ==
    /\ syncPc = "backoff"
    /\ ~Cancelled
    /\ syncPc' = AfterBackoff
    /\ phase' = 1
    /\ cycle' = cycle + 1
    /\ cyc' = NewCycle
    /\ UNCHANGED <<varsRelay, varsEnv, varsHttp, varsPub, syncClose, closedFrom, sinceErr,
                   varsStore, varsApply, pollCount, lastQuery, lastQueryCursor,
                   resp, brk, warnings, streamConnects, streamOpen, streamEvents,
                   lastStream, restart, firstPoll, trouble>>

\* ---- segmentSync.Close

\* A variant of Close that does not wait for the worker.
CloseMayReturn_NoWait(pc) == TRUE

\* Close returns once the worker has exited.
CloseMayReturn(pc) == pc = "exited"

\* segmentSync.Close() is called on a started synchronizer: the poll timer and the
\* stream connection are cancelled.
SyncCloseCall ==
    /\ syncClose = "none"
    /\ syncPc \notin {"idle", "exited"}
    /\ syncClose' = "called"
    /\ closedFrom' = IF syncPc \in {"poll", "pollBody", "connect", "setSync"}
                     THEN "polling" ELSE syncPc
    /\ UNCHANGED <<varsRelay, varsEnv, varsHttp, varsPub, varsStore, varsApply, syncPc, phase, cycle,
                   pollCount, lastQuery, lastQueryCursor, resp, brk, warnings,
                   streamConnects, streamOpen, streamEvents, lastStream, cyc, restart,
                   firstPoll, trouble, sinceErr>>

\* The worker sees the cancellation, from wherever it is, drops the stream and exits.
WorkerExit ==
    /\ syncClose = "called"
    /\ syncPc # "exited"
    /\ syncPc' = "exited"
    /\ streamOpen' = FALSE
    /\ UNCHANGED <<varsRelay, varsEnv, varsHttp, varsPub, varsStore, varsApply, syncClose, closedFrom,
                   phase, cycle, pollCount, lastQuery, lastQueryCursor, resp, brk, warnings,
                   streamConnects, streamEvents, lastStream, cyc, restart, firstPoll,
                   trouble, sinceErr>>

\* Close returns.
SyncCloseReturn ==
    /\ syncClose = "called"
    /\ CloseMayReturn(syncPc)
    /\ syncClose' = "returned"
    /\ UNCHANGED <<varsRelay, varsEnv, varsHttp, varsPub, varsStore, varsApply, closedFrom, syncPc, phase,
                   cycle, pollCount, lastQuery, lastQueryCursor, resp, brk, warnings,
                   streamConnects, streamOpen, streamEvents, lastStream, cyc, restart,
                   firstPoll, trouble, sinceErr>>

NextSync ==
    \/ Start
    \/ PollRequest
    \/ \E patch \in PatchSet : PollItem(patch)
    \/ PollEnd
    \/ ConnectStream
    \/ SetSynchronizedOn
    \/ \E patch \in PatchSet : StreamPatch(patch)
    \/ StreamError
    \/ BackoffElapsed

\* ------------------------------------------------------------------ request dispatch

\* sdkKind values (sdk_kinds.go, lines 14-18) and one value that is none of them.
serverSdk == "server"
jsClientSdk == "js"
mobileSdk == "mobile"
SdkKinds == {serverSdk, jsClientSdk, mobileSdk, "php"}

\* Authorization header values of a request: none, a server key, a server key after
\* the api_key prefix, a mobile key, a well-formed key no environment owns, and text
\* that holds no key.
AuthHeaders == {"", "sdk-1", "api_key sdk-1", "mob-1", "sdk-9", "bogus"}

\* mux.Vars(req)["envId"]: empty when the matched route has no such variable.
EnvIds == {"", "env1", "env9"}

\* uuidHeaderPattern.FindStringSubmatch(authHdr): the whole match and the key, or
\* nothing when the header holds no UUID-shaped key.
FindStringSubmatch(authHdr) ==
    IF authHdr \in {"sdk-1", "mob-1", "sdk-9"} THEN <<authHdr, authHdr>>
    ELSE IF authHdr = "api_key sdk-1" THEN <<authHdr, "sdk-1">>
    ELSE <<>>

\* fetchAuthToken, lines 44-54
fetchAuthToken(authHdr) ==
    LET match == FindStringSubmatch(authHdr)
    IN  IF Len(match) = 2
        THEN [value |-> match[2], err |-> ""]
        ELSE [value |-> "", err |-> "no valid token found"]

\* The nil config.SDKCredential.
NoCredential == [variant |-> "nil", value |-> ""]

\* A variant that wraps the mobile token as an SDKKey.
getSDKCredential_MobileAsSDKKey(s, authHdr, envId) ==
    IF s \in {serverSdk, mobileSdk}
    THEN LET t == fetchAuthToken(authHdr)
         IN  IF t.err = ""
             THEN [cred |-> [variant |-> "SDKKey", value |-> t.value], err |-> ""]
             ELSE [cred |-> NoCredential, err |-> t.err]
    ELSE IF s = jsClientSdk
    THEN IF envId = ""
         THEN [cred |-> NoCredential, err |-> "environment ID not found in URL"]
         ELSE [cred |-> [variant |-> "EnvironmentID", value |-> envId], err |-> ""]
    ELSE [cred |-> NoCredential, err |-> "unknown SDK kind"]

\* sdkKind.getSDKCredential, lines 20-42
getSDKCredential(s, authHdr, envId) ==
    IF s = serverSdk
    THEN LET t == fetchAuthToken(authHdr)
         IN  IF t.err = ""
             THEN [cred |-> [variant |-> "SDKKey", value |-> t.value], err |-> ""]
             ELSE [cred |-> NoCredential, err |-> t.err]
    ELSE IF s = mobileSdk
    THEN LET t == fetchAuthToken(authHdr)
         IN  IF t.err = ""
             THEN [cred |-> [variant |-> "MobileKey", value |-> t.value], err |-> ""]
             ELSE [cred |-> NoCredential, err |-> t.err]
    ELSE IF s = jsClientSdk
    THEN IF envId = ""
         THEN [cred |-> NoCredential, err |-> "environment ID not found in URL"]
         ELSE [cred |-> [variant |-> "EnvironmentID", value |-> envId], err |-> ""]
    ELSE [cred |-> NoCredential, err |-> "unknown SDK kind"]

\* ---- the route table

\* The selectors of lines 28-30 and the SDK kind each was built with.
Selectors == {"sdkKeySelector", "mobileKeySelector", "jsClientSelector"}

SelectorKind(m) ==
    IF m = "sdkKeySelector" THEN serverSdk
    ELSE IF m = "mobileKeySelector" THEN mobileSdk
    ELSE jsClientSdk

\* lines 33-36, 52-54, 75-77: the middleware stacks, outermost first.
clientSideMiddlewareStack == <<"cors", "jsClientSelector", "requestCount:browser">>
serverSideMiddlewareStack == <<"sdkKeySelector", "requestCount:server">>
mobileMiddlewareStack == <<"mobileKeySelector", "requestCount:mobile">>

\* One registered route: its full path pattern, whether the pattern has {envId}, its
\* methods, the middleware a matching request passes (outermost first) and its handler.
Route(path, envIdVar, methods, chain, handler) ==
    [path |-> path, envIdVar |-> envIdVar, methods |-> methods, chain |-> chain,
     handler |-> handler]

\* The routes of a subrouter that share methods, chain and handler.
RoutesOf(paths, envIdVar, methods, chain, handler) ==
    {Route(p, envIdVar, methods, chain, handler) : p \in paths}

\* A variant that registers /mping without its selector.
mpingMiddleware_Unselected == <<"countMobileConns", "streaming">>

\* lines 96-97: what wraps the /mping handler, outermost first.
mpingMiddleware == <<"mobileKeySelector", "countMobileConns", "streaming">>

\* RelayCore.MakeRouter, lines 20-143: every route it registers.
MakeRouter(debug) ==
    LET g == <<"globalContextLoggers">> \o (IF debug THEN <<"requestLogger">> ELSE <<>>)
        cs == g \o clientSideMiddlewareStack \o <<"corsMethod">>
        css == cs \o <<"streaming", "countBrowserConns">>
        ss == g \o serverSideMiddlewareStack
        ms == g \o mobileMiddlewareStack
        getOpt == {"GET", "OPTIONS"}
        repOpt == {"REPORT", "OPTIONS"}
        postOpt == {"POST", "OPTIONS"}
    IN  \* line 26
        {Route("/status", FALSE, {"GET"}, g, "statusHandler")}
        \* lines 38-50
        \cup {Route("/sdk/goals/{envId}", TRUE, getOpt, cs, "getGoals")}
        \cup RoutesOf({"/sdk/eval/{envId}/users/{user}"}, TRUE, getOpt, cs,
                      "evaluateAllFeatureFlagsValueOnly")
        \cup RoutesOf({"/sdk/eval/{envId}/user"}, TRUE, repOpt, cs,
                      "evaluateAllFeatureFlagsValueOnly")
        \cup RoutesOf({"/sdk/evalx/{envId}/users/{user}"}, TRUE, getOpt, cs,
                      "evaluateAllFeatureFlags")
        \cup RoutesOf({"/sdk/evalx/{envId}/user"}, TRUE, repOpt, cs,
                      "evaluateAllFeatureFlags")
        \* lines 56-72: the stack is applied to each handler explicitly
        \cup RoutesOf({"/sdk/eval/users/{user}"}, FALSE, {"GET"}, ss,
                      "evaluateAllFeatureFlagsValueOnly")
        \cup RoutesOf({"/sdk/eval/user"}, FALSE, {"REPORT"}, ss,
                      "evaluateAllFeatureFlagsValueOnly")
        \cup RoutesOf({"/sdk/evalx/users/{user}"}, FALSE, {"GET"}, ss,
                      "evaluateAllFeatureFlags")
        \cup RoutesOf({"/sdk/evalx/user"}, FALSE, {"REPORT"}, ss,
                      "evaluateAllFeatureFlags")
        \cup {Route("/sdk/flags", FALSE, {"GET"}, ss, "pollAllFlagsHandler"),
              Route("/sdk/flags/{key}", FALSE, {"GET"}, ss, "pollFlagHandler"),
              Route("/sdk/segments/{key}", FALSE, {"GET"}, ss, "pollSegmentHandler")}
        \* lines 79-88
        \cup RoutesOf({"/msdk/eval/users/{user}"}, FALSE, {"GET"}, ms,
                      "evaluateAllFeatureFlagsValueOnly")
        \cup RoutesOf({"/msdk/eval/user"}, FALSE, {"REPORT"}, ms,
                      "evaluateAllFeatureFlagsValueOnly")
        \cup RoutesOf({"/msdk/evalx/users/{user}"}, FALSE, {"GET"}, ms,
                      "evaluateAllFeatureFlags")
        \cup RoutesOf({"/msdk/evalx/user"}, FALSE, {"REPORT"}, ms,
                      "evaluateAllFeatureFlags")
        \* lines 90-94
        \cup {Route("/meval", FALSE, {"REPORT"},
                    ms \o <<"streaming", "countMobileConns">>, "pingStreamHandlerWithUser"),
              Route("/meval/{user}", FALSE, {"GET"},
                    ms \o <<"streaming", "countMobileConns">>, "pingStreamHandlerWithUser")}
        \* lines 96-97
        \cup {Route("/mping", FALSE, {"GET"},
                    g \o mpingMiddleware, "pingStreamHandler")}
        \* lines 99-110
        \cup {Route("/ping/{envId}", TRUE, getOpt, css, "pingStreamHandler"),
              Route("/eval/{envId}/{user}", TRUE, getOpt, css, "pingStreamHandlerWithUser"),
              Route("/eval/{envId}", TRUE, repOpt, css, "pingStreamHandlerWithUser")}
        \* lines 112-117
        \cup RoutesOf({"/mobile/events/bulk", "/mobile/events", "/mobile"}, FALSE,
                      {"POST"}, ms, "bulkEventHandler:mobile")
        \cup {Route("/mobile/events/diagnostic", FALSE, {"POST"}, ms,
                    "bulkEventHandler:mobileDiagnostic")}
        \* lines 119-125
        \cup {Route("/events/bulk/{envId}", TRUE, postOpt, cs, "bulkEventHandler:js"),
              Route("/events/diagnostic/{envId}", TRUE, postOpt, cs,
                    "bulkEventHandler:jsDiagnostic")}
        \* lines 127-129
        \cup {Route("/a/{envId}.gif", TRUE, getOpt, cs, "getEventsImage")}
        \* lines 131-140
        \cup {Route("/bulk", FALSE, {"POST"}, ss, "bulkEventHandler:server"),
              Route("/diagnostic", FALSE, {"POST"}, ss, "bulkEventHandler:serverDiagnostic"),
              Route("/all", FALSE, {"GET"}, ss \o <<"countServerConns", "streaming">>,
                    "streamHandler:all"),
              Route("/flags", FALSE, {"GET"}, ss \o <<"countServerConns", "streaming">>,
                    "streamHandler:flags")}

\* ---- one request

NoEnv == "noEnv"

\* The credentials of the one configured environment.
KnownCredentials ==
    {[variant |-> "SDKKey", value |-> "sdk-1"],
     [variant |-> "MobileKey", value |-> "mob-1"],
     [variant |-> "EnvironmentID", value |-> "env1"]}

\* The environment lookup of a selector: the environment that owns the credential.
EnvLookup(cred) == IF cred \in KnownCredentials THEN "env1" ELSE NoEnv

\* The status a selector answers with when it cannot resolve the request: 401 when
\* the Authorization header gives no key, 404 when the path gives no envId or no
\* environment owns the credential.
SelectorErrorStatus(kind, credErr) ==
    IF credErr = "" THEN 404
    ELSE IF kind = jsClientSdk THEN 404 ELSE 401

\* Values of the d query parameter: absent, base64 of an event, text that is not base64.
DValues == {"", "eyJraW5kIjoiaWRlbnRpZnkifQ==", "%%%"}

NoResponse == [status |-> 0, contentType |-> "", body |-> ""]

NoRoute == Route("", FALSE, {}, <<>>, "")

NoCredCall == [kind |-> "", authHdr |-> "", envId |-> "",
               result |-> [cred |-> NoCredential, err |-> ""]]

\* http.Header over the names this handler touches: each name's values, in order.
EventSchemaHeader == "X-LaunchDarkly-Event-Schema"

HeaderNames == {"Content-Type", "X-LaunchDarkly-User-Agent", EventSchemaHeader}

\* A header without entries.
NewHeader == [n \in HeaderNames |-> <<>>]

\* http.Header.Add
HeaderAdd(h, name, value) == [h EXCEPT ![name] = Append(@, value)]

\* http.Header.Get: the first value of the name, "" when it has none.
HeaderGet(h, name) == IF h[name] = <<>> THEN "" ELSE h[name][1]

\* X-LaunchDarkly-User-Agent values of the incoming request: absent, or a browser SDK's.
UserAgents == {"", "JSClient/2.1.0"}

InitHttp ==
    /\ req = [route |-> NoRoute, method |-> "", authHdr |-> "", envId |-> "", d |-> "",
              dispatcher |-> "none", jsHandler |-> FALSE, header |-> NewHeader]
    /\ reqPc = "idle"
    /\ chainIdx = 0
    /\ trace = <<>>
    /\ resolutions = 0
    /\ envCtx = [env |-> NoEnv, err |-> ""]
    /\ handlerRuns = 0
    /\ response = NoResponse
    /\ sub = "none"
    /\ submissions = 0
    /\ credCall = NoCredCall
    /\ eventsReq = NewHeader
    /\ statusKey = <<>>
    /\ statusDoc = <<>>

\* A direct call of getSDKCredential, outside any route, with any kind and any request.
CallGetSDKCredential(kind, authHdr, envId) ==
    /\ reqPc = "idle"
    /\ credCall' = [kind |-> kind, authHdr |-> authHdr, envId |-> envId,
                    result |-> getSDKCredential(kind, authHdr, envId)]
    /\ reqPc' = "called"
    /\ UNCHANGED <<varsRelay, varsEnv, varsStore, varsApply, varsSync, varsPub, eventsReq, statusKey, statusDoc,
                   req, chainIdx, trace,
                   resolutions, envCtx, handlerRuns, response, sub, submissions>>

\* A request arrives and the router matches it to a route. envId is set exactly on
\* routes whose pattern has {envId}; d and the environment's event dispatcher matter
\* to getEventsImage only; a JS events handler belongs to a dispatcher.
Arrive(route, method, authHdr, envId, d, sendEvents, jsHandler, userAgent) ==
    /\ reqPc = "idle"
    /\ method \in route.methods
    /\ (envId # "") <=> route.envIdVar
    /\ route.handler # "getEventsImage" => (d = "" /\ ~sendEvents /\ userAgent = "")
    /\ jsHandler => sendEvents
    /\ req' = [route |-> route, method |-> method, authHdr |-> authHdr, envId |-> envId,
               d |-> d, dispatcher |-> NewEventDispatcher(sendEvents),
               jsHandler |-> jsHandler,
               header |-> IF userAgent = "" THEN NewHeader
                          ELSE HeaderAdd(NewHeader, "X-LaunchDarkly-User-Agent", userAgent)]
    /\ reqPc' = "chain"
    /\ chainIdx' = 1
    /\ UNCHANGED <<varsRelay, varsEnv, varsStore, varsApply, varsSync, varsPub, eventsReq, statusKey, statusDoc,
                   trace, resolutions, envCtx,
                   handlerRuns, response, sub, submissions, credCall>>

\* The next middleware of the chain runs. A selector extracts the credential, looks the
\* environment up and either puts it into the request and calls the next handler or
\* answers with an error; every other middleware calls the next handler.
MiddlewareStep ==
    /\ reqPc = "chain"
    /\ chainIdx <= Len(req.route.chain)
    /\ LET m == req.route.chain[chainIdx]
           kind == SelectorKind(m)
           r == getSDKCredential(kind, req.authHdr, req.envId)
           env == EnvLookup(r.cred)
       IN  /\ trace' = Append(trace, m)
           /\ IF m \in Selectors
              THEN /\ credCall' = [kind |-> kind, authHdr |-> req.authHdr,
                                   envId |-> req.envId, result |-> r]
                   /\ IF r.err = "" /\ env # NoEnv
                      THEN /\ envCtx' = [env |-> env, err |-> ""]
                           /\ resolutions' = resolutions + 1
                           /\ chainIdx' = chainIdx + 1
                           /\ UNCHANGED <<reqPc, response>>
                      ELSE /\ envCtx' = [env |-> NoEnv,
                                         err |-> IF r.err # "" THEN r.err
                                                 ELSE "unknown environment"]
                           /\ response' = [status |-> SelectorErrorStatus(kind, r.err),
                                           contentType |-> "", body |-> "error"]
                           /\ reqPc' = "done"
                           /\ UNCHANGED <<resolutions, chainIdx>>
              ELSE /\ chainIdx' = chainIdx + 1
                   /\ UNCHANGED <<credCall, envCtx, resolutions, reqPc, response>>
    /\ UNCHANGED <<varsRelay, varsEnv, varsStore, varsApply, varsSync, varsPub, eventsReq, statusKey, statusDoc,
                   req, handlerRuns, sub,
                   submissions>>

\* The innermost middleware called the route's handler. The handlers other than
\* getEventsImage write their own response.
RunHandler ==
    /\ reqPc = "chain"
    /\ chainIdx > Len(req.route.chain)
    /\ req.route.handler # "getEventsImage"
    /\ handlerRuns' = handlerRuns + 1
    /\ response' = [status |-> 200, contentType |-> "", body |-> req.route.handler]
    /\ reqPc' = "done"
    /\ UNCHANGED <<varsRelay, varsEnv, varsStore, varsApply, varsSync, varsPub, eventsReq, statusKey, statusDoc,
                   req, chainIdx, trace,
                   resolutions, envCtx, sub, submissions, credCall>>

\* ---- getEventsImage

\* browser.Transparent1PixelImageData
Transparent1PixelImageData == "GIF89a:1x1"

\* util.ErrorJSONMsg
ErrorJSONMsg(msg) == "{\"message\":\"" \o msg \o "\"}"

\* A variant without the check of lines 25-29.
EventsUnavailable_NoHandlerCheck(disp, jsHandler) ==
    IF disp = "none"
    THEN "Event proxy is not enabled for this environment"
    ELSE ""

\* lines 19-29: the message of the 503 answer, "" when the JS events handler exists.
EventsUnavailable(disp, jsHandler) ==
    IF disp = "none"
    THEN "Event proxy is not enabled for this environment"
    ELSE IF ~jsHandler
    THEN "Event proxy for browser clients is not enabled for this environment"
    ELSE ""

\* A variant that submits whatever d is.
ShouldSubmit_Always(d) == TRUE

\* line 32
ShouldSubmit(d) == d # ""

\* A variant that reports a failed submission to the client.
ImageResponse_ReportsFailure(goroutine) ==
    IF goroutine = "failed"
    THEN [status |-> 500, contentType |-> "", body |-> ErrorJSONMsg("submission failed")]
    ELSE [status |-> 200, contentType |-> "image/gif", body |-> Transparent1PixelImageData]

\* lines 44-45: what getEventsImage writes, whatever the state of the goroutine it
\* started: the Content-Type, and the body with the implicit status 200.
ImageResponse(goroutine) ==
    [status |-> 200, contentType |-> "image/gif", body |-> Transparent1PixelImageData]

\* getEventsImage, lines 16-42: the two checks, and the go statement when d is set.
getEventsImageEnter ==
    /\ reqPc = "chain"
    /\ chainIdx > Len(req.route.chain)
    /\ req.route.handler = "getEventsImage"
    /\ handlerRuns' = handlerRuns + 1
    /\ LET msg == EventsUnavailable(req.dispatcher, req.jsHandler)
       IN  IF msg # ""
           THEN /\ response' = [status |-> 503, contentType |-> "",
                                body |-> ErrorJSONMsg(msg)]
                /\ reqPc' = "done"
                /\ UNCHANGED sub
           ELSE /\ sub' = IF ShouldSubmit(req.d) THEN "spawned" ELSE "none"
                /\ reqPc' = "imageWrite"
                /\ UNCHANGED response
    /\ UNCHANGED <<varsRelay, varsEnv, varsStore, varsApply, varsSync, varsPub, eventsReq, statusKey, statusDoc,
                   req, chainIdx, trace,
                   resolutions, envCtx, submissions, credCall>>

\* getEventsImage, lines 44-45
getEventsImageWrite ==
    /\ reqPc = "imageWrite"
    /\ response' = ImageResponse(sub)
    /\ reqPc' = "done"
    /\ UNCHANGED <<varsRelay, varsEnv, varsStore, varsApply, varsSync, varsPub, eventsReq, statusKey, statusDoc,
                   req, chainIdx, trace,
                   resolutions, envCtx, handlerRuns, sub, submissions, credCall>>

\* lines 36-39: the header of eventsReq when it is handed to the handler. The request
\* is made by http.NewRequest, so its header starts empty; line 38 reads the
\* user-agent header from eventsReq itself, not from req.
EventsRequestHeader(reqHeader) ==
    LET h0 == NewHeader
        h1 == HeaderAdd(h0, "Content-Type", "application/json")
        h2 == HeaderAdd(h1, "X-LaunchDarkly-User-Agent",
                        HeaderGet(h1, "X-LaunchDarkly-User-Agent"))
        h3 == HeaderAdd(h2, EventSchemaHeader, "SummaryEventsSchemaVersion")
    IN  h3

\* The goroutine of lines 33-41 builds the POST and calls the JS events handler.
SubmitCall ==
    /\ sub = "spawned"
    /\ sub' = "running"
    /\ submissions' = submissions + 1
    /\ eventsReq' = EventsRequestHeader(req.header)
    /\ UNCHANGED <<varsRelay, varsEnv, varsStore, varsApply, varsSync, varsPub, statusKey, statusDoc, req, reqPc, chainIdx, trace,
                   resolutions, envCtx, handlerRuns, response, credCall>>

\* The handler call of line 40 returns, having accepted the event or not. A call that
\* never returns is a behaviour in which this step is never taken.
SubmitReturn(outcome) ==
    /\ sub = "running"
    /\ sub' = outcome
    /\ UNCHANGED <<varsRelay, varsEnv, varsStore, varsApply, varsSync, varsPub, eventsReq, statusKey, statusDoc,
                   req, reqPc, chainIdx, trace,
                   resolutions, envCtx, handlerRuns, response, submissions, credCall>>

\* The router, built with or without debug logging, serves one request.
ServeRequest ==
    /\ reqPc = "idle"
    /\ \E debug \in BOOLEAN :
         \E route \in MakeRouter(debug) :
           \E method \in route.methods, authHdr \in AuthHeaders, envId \in EnvIds,
              d \in DValues, sendEvents \in BOOLEAN, jsHandler \in BOOLEAN,
              userAgent \in UserAgents :
                Arrive(route, method, authHdr, envId, d, sendEvents, jsHandler, userAgent)

NextHttp ==
    \/ \E kind \in SdkKinds, authHdr \in AuthHeaders, envId \in EnvIds :
          CallGetSDKCredential(kind, authHdr, envId)
    \/ ServeRequest
    \/ MiddlewareStep
    \/ RunHandler
    \/ getEventsImageEnter
    \/ getEventsImageWrite
    \/ SubmitCall
    \/ \E outcome \in {"ok", "failed"} : SubmitReturn(outcome)

\* ------------------------------------------------------------------ status endpoint

\* Characters of the key after its prefix that the status document leaves readable.
VisibleSuffix == 5

\* Characters of the key's prefix ("sdk-", "mob-").
PrefixLen == 4

\* SDK and mobile keys, as sequences of characters: a prefix and a UUID. The last
\* eight characters vary, among them the tail the test expects to stay readable.
KeyPrefixes == {<<"s", "d", "k", "-">>, <<"m", "o", "b", "-">>}

KeyTails ==
    [1..8 -> {"e", "0"}] \cup {<<"e", "3", "d", "e", "4", "2", "d", "0">>}

MakeKey(prefix, tail) ==
    prefix \o <<"9", "8", "e", "2", "b", "0", "b", "4", "-", "2", "6", "8", "8", "-",
                "4", "a", "5", "9", "-", "9", "8", "1", "0", "-", "1", "e", "0", "e">>
           \o tail

\* A variant that leaves the last seven characters readable.
ObscureKey_LastSeven(key) ==
    [i \in 1..Len(key) |->
        IF i <= PrefixLen \/ i > Len(key) - 7 \/ key[i] = "-" THEN key[i] ELSE "*"]

\* The key as the status document shows it (lines 171-185): the prefix, the
\* separators and the last five characters are kept, every other character is '*'.
ObscureKey(key) ==
    [i \in 1..Len(key) |->
        IF i <= PrefixLen \/ i > Len(key) - VisibleSuffix \/ key[i] = "-"
        THEN key[i] ELSE "*"]

\* GET /status for an environment with the given key.
statusHandler(key) ==
    /\ statusKey = <<>>
    /\ statusKey' = key
    /\ statusDoc' = ObscureKey(key)
    /\ UNCHANGED <<varsRelay, varsEnv, varsStore, varsApply, varsSync, varsPub, req, reqPc, chainIdx,
                   trace, resolutions, envCtx, handlerRuns, response, sub, submissions,
                   credCall, eventsReq>>

NextStatus ==
    \E prefix \in KeyPrefixes, tail \in KeyTails : statusHandler(MakeKey(prefix, tail))

\* ------------------------------------------------------------------ stream publisher

\* lines 119-125 of NewEnvContext: the topic each stream handler of an environment is
\* bound to on its publisher.
ClientHandlers(sdkKey, mobileKey, envId) ==
    [AllStreamHandler |-> [publisher |-> "ServerSideAll", topic |-> sdkKey],
     FlagsStreamHandler |-> [publisher |-> "ServerSideFlags", topic |-> sdkKey],
     MobileStreamHandler |-> [publisher |-> "Mobile", topic |-> mobileKey],
     JSClientStreamHandler |-> [publisher |-> "JSClient", topic |-> envId]]

\* The topics two environments bind on the ServerSideAll publisher (the /all stream).
Topics ==
    {ClientHandlers(k, "", "").AllStreamHandler.topic : k \in {"sdk-1", "sdk-2"}}

\* Connections to the /all stream.
Subscribers == {"A", "B"}

PutEvent(n) == [type |-> "put", seq |-> n]

\* A variant that puts a new event ahead of the waiting ones.
Enqueue_AtFront(queue, event) == <<event>> \o queue

\* The publisher adds an event at the end of a subscriber's channel.
Enqueue(queue, event) == Append(queue, event)

InitPub ==
    /\ pubLog = [t \in Topics |-> <<>>]
    /\ subTopic = [s \in Subscribers |-> ""]
    /\ subState = [s \in Subscribers |-> "none"]
    /\ subQueue = [s \in Subscribers |-> <<>>]
    /\ subReceived = [s \in Subscribers |-> <<>>]
    /\ subSince = [s \in Subscribers |-> 0]

\* A client connects to a topic's handler: in one critical section the publisher
\* captures the snapshot and registers the subscriber.
Subscribe(s, topic) ==
    /\ subState[s] = "none"
    /\ subTopic' = [subTopic EXCEPT ![s] = topic]
    /\ subState' = [subState EXCEPT ![s] = "connected"]
    /\ subSince' = [subSince EXCEPT ![s] = Len(pubLog[topic])]
    /\ UNCHANGED <<varsRelay, varsEnv, varsStore, varsApply, varsSync, varsHttp, pubLog, subQueue,
                   subReceived>>

\* The handler writes the initial event, the snapshot it captured, to the connection.
WritePut(s) ==
    /\ subState[s] = "connected"
    /\ subReceived[s] = <<>>
    /\ subReceived' = [subReceived EXCEPT ![s] = <<PutEvent(subSince[s])>>]
    /\ UNCHANGED <<varsRelay, varsEnv, varsStore, varsApply, varsSync, varsHttp, pubLog, subTopic,
                   subState, subQueue, subSince>>

\* Publish(topic, event) after a mutation of the store: the event goes to the channel
\* of every subscriber of the topic; a subscriber whose channel is full is dropped and
\* its connection closed.
Publish(topic, type) ==
    /\ PublishedCount < MaxPublished
    /\ LET event == [type |-> type, seq |-> Len(pubLog[topic]) + 1]
           mine(s) == subState[s] = "connected" /\ subTopic[s] = topic
           full(s) == Len(subQueue[s]) >= MaxQueue
       IN  /\ pubLog' = [pubLog EXCEPT ![topic] = Append(@, event)]
           /\ subQueue' = [s \in Subscribers |->
                              IF ~mine(s) THEN subQueue[s]
                              ELSE IF full(s) THEN <<>>
                              ELSE Enqueue(subQueue[s], event)]
           /\ subState' = [s \in Subscribers |->
                              IF mine(s) /\ full(s) THEN "dropped" ELSE subState[s]]
    /\ UNCHANGED <<varsRelay, varsEnv, varsStore, varsApply, varsSync, varsHttp, subTopic,
                   subReceived, subSince>>

\* The handler, having written the initial event, writes the next event of the
\* subscriber's channel to the connection.
Deliver(s) ==
    /\ subState[s] = "connected"
    /\ subReceived[s] # <<>>
    /\ subQueue[s] # <<>>
    /\ subReceived' = [subReceived EXCEPT ![s] = Append(@, Head(subQueue[s]))]
    /\ subQueue' = [subQueue EXCEPT ![s] = Tail(@)]
    /\ UNCHANGED <<varsRelay, varsEnv, varsStore, varsApply, varsSync, varsHttp, pubLog, subTopic,
                   subState, subSince>>

\* The client disconnects; what was still in its channel is never written.
Disconnect(s) ==
    /\ subState[s] = "connected"
    /\ subState' = [subState EXCEPT ![s] = "gone"]
    /\ subQueue' = [subQueue EXCEPT ![s] = <<>>]
    /\ UNCHANGED <<varsRelay, varsEnv, varsStore, varsApply, varsSync, varsHttp, pubLog, subTopic,
                   subReceived, subSince>>

NextPub ==
    \/ \E s \in Subscribers, topic \in Topics : Subscribe(s, topic)
    \/ \E topic \in Topics, type \in {"patch", "delete"} : Publish(topic, type)
    \/ \E s \in Subscribers : WritePut(s)
    \/ \E s \in Subscribers : Deliver(s)
    \/ \E s \in Subscribers : Disconnect(s)

\* ------------------------------------------------------------------ environments of a relay

\* The environments the relay is configured with; one EnvContext is made for each, all
\* with the same streams.Publishers.
EnvNames == {"production", "staging"}

\* config.EnvConfig.SDKKey, MobileKey and EnvID; "" is a credential that was not set.
SDKKeys == {"", "sdk-1", "sdk-2"}
MobileKeys == {"", "mob-1", "mob-2"}
EnvIDs == {"", "env-1"}

NoCredentials == [SDKKey |-> "", MobileKey |-> "", EnvironmentID |-> ""]

\* A configuration never gives one credential value to two environments: a value that
\* is set is set for one environment only.
OwnedByNone(creds, others) ==
    \A o \in others :
        /\ creds.SDKKey # "" => creds.SDKKey # o.SDKKey
        /\ creds.MobileKey # "" => creds.MobileKey # o.MobileKey
        /\ creds.EnvironmentID # "" => creds.EnvironmentID # o.EnvironmentID

\* The envContextImpl before NewEnvContext was called for the environment.
NoContext ==
    [pc |-> "none", credentials |-> NoCredentials, storeAdapter |-> "nil",
     store |-> "none", handlers |-> {}]

NoQuery == [env |-> "", method |-> "", storeAdapter |-> "", store |-> "", result |-> ""]

InitRelay ==
    /\ ctx = [e \in EnvNames |-> NoContext]
    /\ storeQuery = NoQuery

\* A NewEnvContext call is between its first statement and its return.
Constructing(e) == ctx[e].pc \in {"streams", "adapter", "handlers"}

\* The credentials of the contexts made so far.
CredentialsInUse(e) ==
    {ctx[o].credentials : o \in {n \in EnvNames \ {e} : ctx[n].pc # "none"}}

\* lines 78-107: NewHTTPConfig(allConfig.Proxy, envConfig.SDKKey, loggers) is the one
\* statement before the struct literal of line 83 that can return an error.
AfterHTTPConfig(sdkKey, httpErr) == IF httpErr # "" THEN "error" ELSE "streams"

\* NewEnvContext, lines 56-107: the HTTP configuration, the envContextImpl with the
\* credentials of envConfig, and the env streams, which get
\* envContextStoreQueries{envContext} while envContext.storeAdapter, which the struct
\* literal of line 83 leaves out, is still nil.
NewEnvContextStreams(e, proxy, sdkKey, mobileKey, envId) ==
    /\ ctx[e].pc = "none"
    /\ \A o \in EnvNames : ~Constructing(o)
    /\ LET creds == [SDKKey |-> sdkKey, MobileKey |-> mobileKey, EnvironmentID |-> envId]
       IN  /\ OwnedByNone(creds, CredentialsInUse(e))
           /\ ctx' = [ctx EXCEPT ![e] =
                        [NoContext EXCEPT
                            !.pc = AfterHTTPConfig(sdkKey, NewHTTPConfigError(proxy)),
                            !.credentials = creds]]
    /\ UNCHANGED <<varsEnv, varsStore, varsApply, varsSync, varsHttp, varsPub, storeQuery>>

\* lines 109-110: envContext.storeAdapter = storeAdapter
NewEnvContextStoreAdapter(e) ==
    /\ ctx[e].pc = "streams"
    /\ ctx' = [ctx EXCEPT ![e].pc = "adapter", ![e].storeAdapter = "adapter"]
    /\ UNCHANGED <<varsEnv, varsStore, varsApply, varsSync, varsHttp, varsPub, storeQuery>>

\* lines 119-125: the stream handlers, one Handler(topic) call per publisher.
NewEnvContextHandlers(e) ==
    /\ ctx[e].pc = "adapter"
    /\ LET h == ClientHandlers(ctx[e].credentials.SDKKey, ctx[e].credentials.MobileKey,
                               ctx[e].credentials.EnvironmentID)
       IN  ctx' = [ctx EXCEPT ![e].pc = "handlers",
                              ![e].handlers = {h[n] : n \in DOMAIN h}]
    /\ UNCHANGED <<varsEnv, varsStore, varsApply, varsSync, varsHttp, varsPub, storeQuery>>

\* lines 131-185: the event publisher and the metrics environment, either of which
\* can fail, then the return of the context.
NewEnvContextReturn(e, publisherOK, addEnvOK) ==
    /\ ctx[e].pc = "handlers"
    /\ ctx' = [ctx EXCEPT ![e].pc = IF publisherOK /\ addEnvOK THEN "ok" ELSE "error"]
    /\ UNCHANGED <<varsEnv, varsStore, varsApply, varsSync, varsHttp, varsPub, storeQuery>>

\* The SDK client that clientFactory builds asks the adapter, its data store factory,
\* for the store: from then on the adapter holds the underlying store.
CreateDataStore(e) ==
    /\ ctx[e].pc = "ok"
    /\ ctx[e].store = "none"
    /\ ctx' = [ctx EXCEPT ![e].store = "uninitialized"]
    /\ UNCHANGED <<varsEnv, varsStore, varsApply, varsSync, varsHttp, varsPub, storeQuery>>

\* The SDK client's first Init on the store.
StoreInit(e) ==
    /\ ctx[e].store = "uninitialized"
    /\ ctx' = [ctx EXCEPT ![e].store = "initialized"]
    /\ UNCHANGED <<varsEnv, varsStore, varsApply, varsSync, varsHttp, varsPub, storeQuery>>

\* SSERelayDataStoreAdapter.GetStore: the store the adapter holds, nil before the SDK
\* created it. The method reads a field of its receiver, so a call through a nil
\* *SSERelayDataStoreAdapter is a nil pointer dereference.
AdapterGetStore(adapter, store) ==
    IF adapter = "nil" THEN "panic"
    ELSE IF store = "none" THEN "nil" ELSE store

\* envContextStoreQueries.IsInitialized, lines 259-264
IsInitialized(c) ==
    LET s == AdapterGetStore(c.storeAdapter, c.store)
    IN  IF s = "panic" THEN "panic"
        ELSE IF s = "nil" THEN "false"
        ELSE IF s = "initialized" THEN "true" ELSE "false"

\* envContextStoreQueries.GetAll, lines 266-271: (nil, nil) without a store, else what
\* the store's GetAll returns.
GetAll(c) ==
    LET s == AdapterGetStore(c.storeAdapter, c.store)
    IN  IF s = "panic" THEN "panic"
        ELSE IF s = "nil" THEN "empty, nil error"
        ELSE IF s = "initialized" THEN "items, nil error" ELSE "empty, nil error"

StoreQueryMethods == {"IsInitialized", "GetAll"}

\* The env streams call a method of the envContextStoreQueries they were given at
\* line 99; they hold it from their construction on.
CallStoreQuery(e, method) ==
    /\ ctx[e].pc \in {"streams", "adapter", "handlers", "ok"}
    /\ storeQuery' = [env |-> e, method |-> method,
                      storeAdapter |-> ctx[e].storeAdapter,
                      store |-> ctx[e].store,
                      result |-> IF method = "IsInitialized"
                                 THEN IsInitialized(ctx[e]) ELSE GetAll(ctx[e])]
    /\ UNCHANGED <<varsEnv, varsStore, varsApply, varsSync, varsHttp, varsPub, ctx>>

\* envContextImpl.GetCredentials, lines 195-197
GetCredentials(e) == ctx[e].credentials

NextRelay ==
    \/ \E e \in EnvNames, proxy \in ProxyConfigs, sdkKey \in SDKKeys,
          mobileKey \in MobileKeys, envId \in EnvIDs :
            NewEnvContextStreams(e, proxy, sdkKey, mobileKey, envId)
    \/ \E e \in EnvNames : NewEnvContextStoreAdapter(e)
    \/ \E e \in EnvNames : NewEnvContextHandlers(e)
    \/ \E e \in EnvNames, publisherOK \in BOOLEAN, addEnvOK \in BOOLEAN :
            NewEnvContextReturn(e, publisherOK, addEnvOK)
    \/ \E e \in EnvNames : CreateDataStore(e)
    \/ \E e \in EnvNames : StoreInit(e)
    \/ \E e \in EnvNames, method \in StoreQueryMethods : CallStoreQuery(e, method)

\* ------------------------------------------------------------------ specifications

NextEnv ==
    \/ CallNewEnvContext
    \/ InitCallFactory
    \/ InitSetClient
    \/ InitCheckErr
    \/ InitSendReadyErr
    \/ InitSendReady
    \/ RecvReady
    \/ Close
    \/ ObsCallGetInitError
    \/ ObsReturnGetInitError

Init == InitEnv /\ InitStore /\ InitSync /\ InitHttp /\ InitPub /\ InitRelay

SpecEnv == Init /\ [][NextEnv]_vars

SpecRelay == Init /\ [][NextRelay]_vars

SpecStore == Init /\ [][NextStore]_vars

SpecSync == Init /\ [][NextSync]_vars

\* Patches as in sync_test.go: one for an empty store (patch1), one that chains to it
\* (patch2) and one that is out of order where the tests send it (patch1x, patch2x).
TestPatches ==
    {[Version |-> "1", PreviousVersion |-> ""],
     [Version |-> "2", PreviousVersion |-> "1"],
     [Version |-> "1", PreviousVersion |-> "2"]}

\* The synchronizer against servers that send the patches of the tests, with a
\* caller that may call Close at any time after Start.
NextSyncFair ==
    \/ Start
    \/ PollRequest
    \/ \E patch \in TestPatches : PollItem(patch)
    \/ PollEnd
    \/ ConnectStream
    \/ SetSynchronizedOn
    \/ \E patch \in TestPatches : StreamPatch(patch)
    \/ StreamError
    \/ BackoffElapsed
    \/ SyncCloseCall
    \/ WorkerExit
    \/ SyncCloseReturn

\* The worker is a goroutine of its own and the retry interval a timer: a step of the
\* worker that stays possible is taken, and a Close whose worker has exited returns.
SpecSyncFair ==
    /\ Init /\ [][NextSyncFair]_vars
    /\ WF_vars(BackoffElapsed)
    /\ WF_vars(PollRequest)
    /\ WF_vars(WorkerExit)
    /\ WF_vars(SyncCloseReturn)

SpecHttp == Init /\ [][NextHttp]_vars

SpecPub == Init /\ [][NextPub]_vars

SpecStatus == Init /\ [][NextStatus]_vars

\* ------------------------------------------------------------------ claims

\* C1: a context that NewEnvContext returned with a non-nil ready channel is sent on
\* the channel at most once at any time, and exactly once by the time the init
\* goroutine has finished, on the success path, on the ignored-error path and on the
\* not-ignored-error path without ExitOnError.
C1_ReadyExactlyOnce ==
    /\ readySent <= 1
    /\ (envRet = "ok" /\ ~cfg.readyChNil /\ initPc = "done") => readySent = 1

\* C1 witness: the goroutine finished on the not-ignored-error path and sent once.
C1_Witness ==
    /\ envRet = "ok" /\ ~cfg.readyChNil /\ initPc = "done"
    /\ facErr # NoErr /\ ~cfg.ignoreConnectionErrors /\ ~cfg.exitOnError
    /\ readySent = 1

\* C10: from the first send on the ready channel on, GetClient is the client that
\* clientFactory returned and GetInitError is the error it returned (nil exactly when
\* it returned no error), also with IgnoreConnectionErrors; every receiver of the
\* channel read exactly these values.
C10_OutcomeRecordedAtReady ==
    /\ readySent > 0 => (GetClient = facClient /\ GetInitError = facErr)
    /\ \A i \in DOMAIN observed :
          /\ observed[i].client = facClient
          /\ observed[i].err = facErr

\* C10 witness: a receiver got the context of an ignored initialization error, and
\* the context was closed afterwards.
C10_Witness ==
    /\ Len(observed) > 0
    /\ cfg.ignoreConnectionErrors /\ facErr # NoErr
    /\ observed[1].err = facErr
    /\ closeCalls > 0

\* The version of the last call of a history whose patch chained from the cursor the
\* store had when the call was made; the initial cursor when there is none.
RECURSIVE LastMatchedVersion(_)
LastMatchedVersion(h) ==
    IF h = <<>> THEN ""
    ELSE LET c == h[Len(h)]
         IN  IF c.patch.PreviousVersion = c.cursorBefore
             THEN c.patch.Version
             ELSE LastMatchedVersion(SubSeq(h, 1, Len(h) - 1))

\* C2: every applyPatch call returns applied exactly when its patch's previousVersion
\* equals the cursor it found, leaves the cursor at the patch's version when applied
\* and unchanged otherwise; between calls the cursor is the version of the last patch
\* that matched (the initial cursor if none did).
C2_ApplyPatchIffMatch ==
    /\ \A i \in DOMAIN calls :
          LET c == calls[i]
              matched == c.patch.PreviousVersion = c.cursorBefore
          IN  /\ c.applied <=> matched
              /\ c.cursorAfter = IF matched THEN c.patch.Version ELSE c.cursorBefore
    /\ storeLock = NoHolder => cursor = LastMatchedVersion(calls)

\* C2 witness: an applied patch followed by a rejected one; the cursor is the first's.
C2_Witness ==
    /\ Len(calls) = 2
    /\ calls[1].applied /\ ~calls[2].applied
    /\ storeLock = NoHolder
    /\ cursor = calls[1].patch.Version
    /\ cursor # ""

\* C9 as stated: of two patches with the same previousVersion handed to the store one
\* after the other, at most one is applied.
C9_SamePreviousAtMostOne ==
    \A i \in 1..(Len(calls) - 1) :
        calls[i].patch.PreviousVersion = calls[i + 1].patch.PreviousVersion
            => ~(calls[i].applied /\ calls[i + 1].applied)

\* C9 amended: of two patches with the same previousVersion handed to the store one
\* after the other (by one goroutine or by two racing ones), at most one is applied,
\* provided the first one's version differs from that previousVersion.
C9_SamePreviousAtMostOne_Chained ==
    \A i \in 1..(Len(calls) - 1) :
        ( /\ calls[i].patch.PreviousVersion = calls[i + 1].patch.PreviousVersion
          /\ calls[i].patch.Version # calls[i].patch.PreviousVersion )
            => ~(calls[i].applied /\ calls[i + 1].applied)

\* C9 witness: the same patch handed in twice; the first call applied it, the second
\* did not.
C9_Witness ==
    /\ Len(calls) >= 2
    /\ calls[1].patch = calls[2].patch
    /\ calls[1].applied /\ ~calls[2].applied

\* The query a poll request must carry for a cursor: after=<cursor>, or none.
ExpectedQuery(cur) == IF cur = "" THEN "" ELSE "after=" \o cur

\* C3: within one poll response every patch before the first non-matching one is
\* applied, in list order; from the first non-matching patch on nothing is applied
\* (the cursor and the applied patches stay as they were, whatever the later patches
\* are), the warning names that patch's previousVersion, and the next poll request
\* carries the cursor the last applied patch left.
C3_PollStopsAtFirstMismatch ==
    /\ (syncPc = "pollBody" /\ ~brk.active) => resp.applied = resp.idx
    /\ brk.active =>
          /\ cursor = brk.cursor
          /\ Len(patchCh) = brk.len
          /\ brk.prev # brk.cursor
          /\ resp.applied = brk.idx - 1
          /\ warnings.count > 0 /\ warnings.last = brk.prev
          /\ syncPc \in {"pollBody", "poll"}
    /\ resp.afterBreak =>
          /\ lastQueryCursor = resp.breakCursor
          /\ lastQuery = ExpectedQuery(resp.breakCursor)

\* C3 witness: a response whose first patch was applied, whose second did not match
\* and whose third chained from the cursor and was dropped; the next poll was issued.
C3_Witness ==
    /\ resp.afterBreak /\ resp.breakCursor # ""
    /\ syncPc = "pollBody" /\ resp.idx = 3 /\ resp.applied = 1
    /\ brk.active /\ brk.idx = 2 /\ brk.laterMatch

\* C4: after a streamed patch was not applied the stream connection is closed, the
\* cursor is the one the patch found, the worker is back at the first poll loop
\* and polls with that cursor before any new stream connection; a streamed patch
\* that chains from the cursor is applied and moves the cursor to its version.
C4_StreamMismatchRestartsCycle ==
    /\ restart.state = "needPoll" =>
          /\ ~streamOpen
          /\ cursor = restart.cursor
          /\ syncPc = "poll" /\ phase = 1
          /\ lastStream.seen /\ ~lastStream.applied
    /\ restart.state = "polled" => restart.query = ExpectedQuery(restart.cursor)
    /\ lastStream.seen =>
          /\ lastStream.applied <=> (lastStream.patch.PreviousVersion = lastStream.cursorBefore)
          /\ lastStream.cursorAfter = IF lastStream.applied
                                      THEN lastStream.patch.Version
                                      ELSE lastStream.cursorBefore

\* C4 witness: after a mismatch on the first stream the worker polled, connected a
\* second stream, and a patch read from it was applied.
C4_Witness ==
    /\ restart.state = "polled"
    /\ cycle = 2 /\ streamConnects = 2 /\ streamOpen
    /\ syncPc = "streaming"
    /\ lastStream.applied /\ cursor = lastStream.patch.Version

\* C5: in a cycle synchronizedOn is recorded only after a poll of that cycle returned
\* an empty list; after a poll that returned patches the worker is polling again
\* and has not recorded synchronizedOn since.
C5_NoSyncBeforeEmptyPoll ==
    /\ cyc.synced > 0 => cyc.emptyPolls > 0
    /\ (syncPc \in {"poll", "pollBody"} /\ resp.idx > 0) => cyc.synced = 0
    /\ (syncPc \notin {"poll", "pollBody"} /\ pollCount > 0 /\ restart.state # "needPoll")
          => resp.idx = 0

\* C5 witness: a poll returned patches, the next one was issued with the new cursor,
\* and synchronizedOn is not recorded.
C5_Witness ==
    /\ syncPc = "pollBody" /\ resp.idx = 0 /\ pollCount = 2 /\ cycle = 1
    /\ lastQueryCursor # "" /\ patchCh # <<>>
    /\ syncTimeCh = <<>>

\* C6, its last clause: in a cycle no poll request is issued after the first empty
\* poll response.
C6_NoPollAfterFirstEmptyPoll == cyc.emptyPolls > 0 => cyc.pollsAfterEmpty = 0

\* C6 amended: in a cycle the first empty poll response is followed by a second poll
\* loop; synchronizedOn is recorded once, after the second empty response; the worker
\* reads the stream only after that, applies no streamed patch before it, and issues no
\* poll request in the cycle after it.
C6_SyncAfterSecondEmptyPoll ==
    /\ cyc.emptyPolls <= 2 /\ cyc.synced <= 1
    /\ cyc.synced = 1 <=> (cyc.emptyPolls = 2 /\ syncPc # "setSync")
    /\ syncPc = "streaming" => (cyc.synced = 1 /\ streamOpen)
    /\ cyc.streamAppliedUnsynced = 0
    /\ cyc.pollsAfterSync = 0

\* C6 witness: both poll loops of a cycle ended, synchronizedOn is recorded and a
\* patch read from the stream was applied.
C6_Witness ==
    /\ cyc.emptyPolls = 2 /\ cyc.pollsAfterEmpty > 0 /\ cyc.synced = 1
    /\ syncPc = "streaming" /\ cyc.streamApplied > 0

\* C7: when the first poll response after Start was empty and no stream mismatch or
\* stream I/O error has happened, synchronizedOn was recorded at most once, and
\* exactly once when the worker reads the stream.
C7_SyncRecordedOnce ==
    (firstPoll = "empty" /\ ~trouble) =>
        /\ Len(syncTimeCh) <= 1
        /\ syncPc = "streaming" => Len(syncTimeCh) = 1

\* C7 witness: the first poll was empty, the stream delivered patches that were
\* applied, and synchronizedOn was recorded once.
C7_Witness ==
    /\ firstPoll = "empty" /\ ~trouble
    /\ syncPc = "streaming" /\ streamEvents = 2
    /\ Len(syncTimeCh) = 1

\* C8: the latest poll request carries the cursor the store had when the request was
\* made: after=<cursor>, or no query for the empty cursor; the first request of a
\* response that follows applied patches carries the version of the last of them.
C8_PollCarriesCursor ==
    pollCount > 0 =>
        /\ lastQuery = ExpectedQuery(lastQueryCursor)
        /\ (syncPc = "pollBody" /\ resp.idx = 0) => lastQueryCursor = cursor
        /\ (syncPc = "pollBody" /\ resp.idx = 0 /\ patchCh # <<>>)
              => lastQuery = "after=" \o patchCh[Len(patchCh)].Version

\* C8 witness: a poll request made after a patch with version 2 was applied.
C8_Witness ==
    /\ syncPc = "pollBody" /\ resp.idx = 0
    /\ patchCh # <<>> /\ patchCh[Len(patchCh)].Version = "2"
    /\ lastQuery = "after=2"

\* C11: the process has exited exactly when the init goroutine has passed its error
\* check with an error from clientFactory, IgnoreConnectionErrors false and
\* ExitOnError true; with an error, IgnoreConnectionErrors false and ExitOnError false
\* the goroutine takes the early-return send with the error recorded, and has sent
\* once when it is done; with IgnoreConnectionErrors the process never exits.
C11_ExitIffNotIgnoredAndExitOnError ==
    LET decided == initPc \in {"exited", "sendErr", "send", "done"}
        failed == facErr # NoErr
    IN  /\ procExited <=>
              (decided /\ failed /\ ~cfg.ignoreConnectionErrors /\ cfg.exitOnError)
        /\ (decided /\ failed /\ ~cfg.ignoreConnectionErrors /\ ~cfg.exitOnError) =>
              /\ initPc \in {"sendErr", "done"}
              /\ initErr = facErr
              /\ (initPc = "done" /\ ~cfg.readyChNil) => readySent = 1
        /\ cfg.ignoreConnectionErrors => ~procExited

\* C11 witness: the process exited on a not-ignored error with ExitOnError, before
\* anything was sent on the ready channel.
C11_Witness ==
    /\ procExited /\ initPc = "exited"
    /\ facErr # NoErr /\ ~cfg.ignoreConnectionErrors /\ cfg.exitOnError
    /\ readySent = 0 /\ initErr = facErr

\* C12: a second Close on a context is a no-op: the stream bindings are released once
\* and the metrics environment is removed at most once, however often Close is called.
C12_SecondCloseIsNoOp ==
    closeCalls >= 2 => (envStreams.closes = 1 /\ metricsReg.removed <= 1)

\* C13: once Close has returned, the stream bindings are closed, the metrics
\* environment (if any) is removed, and the SDK client stored in the context (if any)
\* has been closed.
C13_CloseReleasesAllThree ==
    closeCalls > 0 =>
        /\ envStreams.closes > 0
        /\ metricsEnv # NoMetricsEnv => metricsReg.removed > 0
        /\ GetClient # NoClient => sdkClient = "closed"

\* C14: once Close has returned, no operation on the context mutates its live state:
\* a SetClient made afterwards leaves the client field as it was.
C14_NoMutationAfterClose == [][closeCalls > 0 => client' = client]_vars

\* C15: a handler of a route other than /status runs at most once and only after
\* exactly one selector of the route's chain has resolved the request to an
\* environment: the envId selector on routes with {envId}, an Authorization selector
\* on the others; when the selector could not extract a credential or found no
\* environment, the request ends there with 401 or 404 and the handler never runs.
C15_HandlerAfterOneSelector ==
    LET ran == {i \in DOMAIN trace : trace[i] \in Selectors}
    IN  /\ resolutions <= 1 /\ handlerRuns <= 1
        /\ (handlerRuns > 0 /\ req.route.path # "/status") =>
              /\ resolutions = 1
              /\ Cardinality(ran) = 1
              /\ envCtx.env # NoEnv /\ envCtx.err = ""
              /\ \A i \in ran : (trace[i] = "jsClientSelector") <=> req.route.envIdVar
        /\ envCtx.err # "" =>
              /\ handlerRuns = 0 /\ resolutions = 0
              /\ reqPc = "done" /\ response.status \in {401, 404}

\* C15 witness: the handler of /mping ran for a request its selector resolved.
C15_Witness ==
    /\ req.route.path = "/mping" /\ handlerRuns = 1
    /\ resolutions = 1 /\ envCtx.env = "env1"

\* C16: getSDKCredential gives SDKKey for server, MobileKey for mobile and
\* EnvironmentID for js, holding exactly the key matched in the Authorization header
\* (server, mobile) or the envId variable (js), with no error; it gives no credential
\* and an error when the header holds no key ("no valid token found"), when envId is
\* empty, or when the kind is none of the three.
C16_CredentialByKind ==
    credCall.kind # "" =>
        LET r == credCall.result
            match == FindStringSubmatch(credCall.authHdr)
            variantOf == [k \in {serverSdk, mobileSdk} |->
                             IF k = serverSdk THEN "SDKKey" ELSE "MobileKey"]
        IN  /\ r.err # "" <=> r.cred = NoCredential
            /\ credCall.kind \in {serverSdk, mobileSdk} =>
                  IF match # <<>>
                  THEN r = [cred |-> [variant |-> variantOf[credCall.kind],
                                      value |-> match[2]],
                            err |-> ""]
                  ELSE r.err = "no valid token found"
            /\ credCall.kind = jsClientSdk =>
                  IF credCall.envId # ""
                  THEN r = [cred |-> [variant |-> "EnvironmentID",
                                      value |-> credCall.envId],
                            err |-> ""]
                  ELSE r.err # ""
            /\ credCall.kind \notin {serverSdk, mobileSdk, jsClientSdk} => r.err # ""

\* C16 witness: a mobile selector took the key out of the Authorization header.
C16_Witness ==
    /\ credCall.kind = mobileSdk /\ credCall.authHdr = "mob-1"
    /\ credCall.result.cred = [variant |-> "MobileKey", value |-> "mob-1"]
    /\ resolutions = 1

\* The request reached getEventsImage and its environment has a JS events handler.
ImageRequestServed ==
    /\ req.route.handler = "getEventsImage" /\ handlerRuns > 0
    /\ req.dispatcher # "none" /\ req.jsHandler

\* C17: for a tracking-pixel request on an environment with a JS events handler the
\* handler is called never when d is empty, at most once when it is not and exactly
\* once when the goroutine has made its call; the response is 200 with the GIF.
C17_PixelSubmitsOncePerNonEmptyD ==
    ImageRequestServed =>
        /\ submissions <= 1
        /\ req.d = "" => (submissions = 0 /\ sub = "none")
        /\ req.d # "" => /\ sub # "none"
                         /\ (sub \in {"running", "ok", "failed"}) <=> submissions = 1
        /\ reqPc = "done" =>
              /\ response.status = 200
              /\ response.body = Transparent1PixelImageData

\* C17 witness: d was text that is not base64; one submission was made, the GIF sent.
C17_Witness ==
    /\ ImageRequestServed /\ req.d = "%%%"
    /\ submissions = 1 /\ reqPc = "done" /\ response.status = 200

\* C18: without an event dispatcher, or without a JS events handler in it, the
\* tracking-pixel endpoint answers 503 with a JSON error body, writes no GIF and
\* submits nothing, whatever d is.
C18_PixelUnavailable ==
    ( /\ req.route.handler = "getEventsImage" /\ handlerRuns > 0
      /\ (req.dispatcher = "none" \/ ~req.jsHandler) ) =>
        /\ reqPc = "done"
        /\ response.status = 503
        /\ response.body \in
              {ErrorJSONMsg("Event proxy is not enabled for this environment"),
               ErrorJSONMsg(
                 "Event proxy for browser clients is not enabled for this environment")}
        /\ response.contentType # "image/gif"
        /\ sub = "none" /\ submissions = 0

\* C18 witness: a dispatcher without JS events handler, and d set.
C18_Witness ==
    /\ req.route.handler = "getEventsImage" /\ handlerRuns > 0
    /\ req.dispatcher # "none" /\ ~req.jsHandler /\ req.d # ""
    /\ response.status = 503

\* C19: the tracking-pixel response does not wait for the submission and does not
\* depend on it: getEventsImage can write it in whatever state the goroutine is, and
\* it is 200, image/gif, the 1x1 GIF whether the submission has not started, is under
\* way, succeeded or failed.
C19_ImageResponseIndependentOfSubmission ==
    /\ reqPc = "imageWrite" => ENABLED getEventsImageWrite
    /\ (ImageRequestServed /\ reqPc = "done") =>
          response = [status |-> 200, contentType |-> "image/gif",
                      body |-> Transparent1PixelImageData]

\* C19 witness: the response was written while the handler call of the submission had
\* not returned.
C19_Witness ==
    /\ ImageRequestServed /\ reqPc = "done" /\ sub = "running"
    /\ response.status = 200 /\ response.contentType = "image/gif"

\* The position of an event in what a subscriber received, 0 when it is not there.
PosIn(received, event) ==
    IF \E i \in DOMAIN received : received[i] = event
    THEN CHOOSE i \in DOMAIN received : received[i] = event
    ELSE 0

C24_ErrorReturnReleasesAll ==
    envRet = "error" =>
        /\ envStreams.closes = envStreams.opened
        /\ dispatcher # "open"
        /\ evPublisher # "open"
        /\ metricsReg.removed = metricsReg.added

\* C25: when NewEnvContext returns an error, no context is returned, clientFactory is
\* never invoked and nothing is ever sent on the ready channel.
C25_ErrorReturnStartsNothing ==
    envRet = "error" =>
        /\ initPc = "none"
        /\ factoryCalls = 0
        /\ readySent = 0
        /\ readyCh = <<>>
        /\ client = NoClient

\* An error return for an NTLM proxy configuration without a proxy URL or without
\* user and password, and one for a later step.
C25_Witness ==
    /\ envRet = "error"
    /\ envErr = "http"
    /\ factoryCalls = 0

\* C26: the init goroutine's write of initErr and a concurrent GetInitError call are
\* never both pending without the lock ordering them.
C26_InitErrAccessSynchronized ==
    ~( /\ InitWritesInitErrNext
       /\ obsPc = "GetInitError"
       /\ ~(HoldsLock("NewEnvContext:161") /\ HoldsLock("GetInitError:241")) )

\* C27: once Close has returned while SDK initialization was in progress, the init
\* goroutine neither stores a client in the context nor sends on the ready channel.
C27_CloseCancelsInit ==
    [][closeCalls > 0 => (client' = client /\ readySent' = readySent)]_vars

\* ------------------------------------------------------------------ C28 .. C29

\* C28: the POST synthesized by the tracking pixel carries the original request's
\* X-LaunchDarkly-User-Agent header value.
C28_PixelForwardsUserAgent ==
    submissions > 0 =>
        HeaderGet(eventsReq, "X-LaunchDarkly-User-Agent")
            = HeaderGet(req.header, "X-LaunchDarkly-User-Agent")

\* The request-count middleware of the bucket that belongs to a selector.
RequestCounterFor(selector) ==
    IF selector = "sdkKeySelector" THEN "requestCount:server"
    ELSE IF selector = "mobileKeySelector" THEN "requestCount:mobile"
    ELSE "requestCount:browser"

\* C29: every request that resolved to an environment on an SDK route has, when its
\* handler runs, passed the request-count middleware exactly once, in the bucket of
\* the selector's SDK kind, and after the selector.
C29_RequestCountedOnce ==
    LET counted == {i \in DOMAIN trace :
                      trace[i] \in {"requestCount:server", "requestCount:mobile",
                                    "requestCount:browser"}}
        selected == {i \in DOMAIN trace : trace[i] \in Selectors}
    IN  (resolutions > 0 /\ handlerRuns > 0) =>
            /\ Cardinality(counted) = 1
            /\ \A i \in counted : \A j \in selected :
                  j < i /\ trace[i] = RequestCounterFor(trace[j])

\* ------------------------------------------------------------------ C22, C23, C30

\* C22: a Close called while the worker is polling, streaming or backing off returns,
\* and only after the worker has exited; once it has returned, no poll request, no
\* stream connection, no applyPatch and no setSynchronizedOn follows.
C22_CloseStopsWorker ==
    /\ [](syncClose = "returned" => (syncPc = "exited" /\ ~streamOpen))
    /\ [][syncClose = "returned" =>
            /\ pollCount' = pollCount
            /\ streamConnects' = streamConnects
            /\ streamEvents' = streamEvents
            /\ UNCHANGED <<cursor, patchCh, syncTimeCh>>]_vars
    /\ (syncClose = "called" ~> syncClose = "returned")

\* C22 witness: a Close called during streaming has returned, after polls, a stream
\* connection and applied patches.
C22_Witness ==
    /\ syncClose = "returned"
    /\ closedFrom = "streaming"
    /\ pollCount > 0 /\ streamConnects > 0 /\ Len(patchCh) > 0

\* C23: after a stream I/O error the worker backs off and then polls again: unless
\* Close is called (or the poll server has answered MaxPolls requests) a new poll
\* request follows, and no stream connection is opened after the error before that
\* poll request.
C23_BackoffThenPoll ==
    /\ [][syncPc' = "backoff" => sinceErr' = "needPoll"]_vars
    /\ [](sinceErr = "needPoll" => ~streamOpen)
    /\ [][sinceErr = "needPoll" => streamConnects' = streamConnects]_vars
    /\ ((syncPc = "backoff" /\ pollCount < MaxPolls)
           ~> (sinceErr = "polled" \/ Cancelled))

\* C23 witness: after a stream I/O error and the backoff a poll request was made, and
\* then the stream was connected again.
C23_Witness ==
    /\ sinceErr = "polled"
    /\ streamOpen
    /\ streamConnects > 1

\* C30: while the worker is streaming, a patch event that chains to the cursor is
\* applied, in arrival order, and leaves the worker on the same stream connection: no
\* stream request, no poll request and no warning; and no step that leaves the worker
\* streaming makes a poll or stream request or logs a warning.
C30_ChainedPatchKeepsStream ==
    [][ /\ (/\ syncPc = "streaming"
            /\ streamEvents' = streamEvents + 1
            /\ lastStream'.patch.PreviousVersion = cursor)
           => /\ syncPc' = "streaming"
              /\ streamOpen'
              /\ cursor' = lastStream'.patch.Version
              /\ patchCh' = Append(patchCh, lastStream'.patch)
              /\ warnings' = warnings
        /\ (syncPc = "streaming" /\ syncPc' = "streaming")
           => /\ streamConnects' = streamConnects
              /\ pollCount' = pollCount
              /\ warnings' = warnings
              /\ streamOpen' = streamOpen ]_vars

\* C30 witness: two patch events were applied from one stream connection, without a
\* mismatch or an I/O error before.
C30_Witness ==
    /\ syncPc = "streaming"
    /\ streamOpen
    /\ cyc.streamApplied = 2
    /\ streamConnects = 1
    /\ warnings.count = 0
    /\ ~trouble

\* ------------------------------------------------------------------ C21

\* The positions of a key that are neither in its prefix, nor a separator, nor among
\* its last n characters.
MaskedPositions(key, n) ==
    {i \in 1..Len(key) : i > PrefixLen /\ i <= Len(key) - n /\ key[i] # "-"}

\* The document shows the key with exactly the positions outside its prefix, its
\* separators and its last n characters replaced by '*'.
RedactedExceptLast(n) ==
    statusKey # <<>> =>
        /\ Len(statusDoc) = Len(statusKey)
        /\ \A i \in 1..Len(statusKey) :
              statusDoc[i] = IF i \in MaskedPositions(statusKey, n) THEN "*"
                             ELSE statusKey[i]
        /\ statusDoc # statusKey

\* C21 as claimed: in the /status document only the prefix and the last seven
\* characters of a key remain visible, every other key character is '*' (separators
\* kept), and the unredacted key does not appear.
C21_RedactedExceptLastSeven == RedactedExceptLast(7)

\* C21 as the test states it: the same with the last five characters.
C21_RedactedExceptLastFive == RedactedExceptLast(5)

\* C21 witness: the document shows the key of the test as the test expects it.
C21_Witness ==
    /\ statusKey = MakeKey(<<"s", "d", "k", "-">>, <<"e", "3", "d", "e", "4", "2", "d", "0">>)
    /\ statusDoc = <<"s", "d", "k", "-", "*", "*", "*", "*", "*", "*", "*", "*", "-",
                     "*", "*", "*", "*", "-", "*", "*", "*", "*", "-", "*", "*", "*", "*",
                     "-", "*", "*", "*", "*", "*", "*", "*", "e", "4", "2", "d", "0">>

\* ------------------------------------------------------------------ C31 .. C34

\* C34: after a successful NewEnvContext no cleanup task runs, on return or later:
\* until Close is called the env streams are open and were never closed, and the
\* metrics environment, if there is a metrics manager, is registered and was never
\* removed; without a metrics manager RemoveEnvironment is never called.
C34_NoCleanupAfterSuccess ==
    (envRet = "ok" /\ closeCalls = 0) =>
        /\ envStreams = [opened |-> 1, closes |-> 0]
        /\ metricsReg.removed = 0
        /\ metricsReg.added = IF cfg.metricsManagerNil THEN 0 ELSE 1

\* C34 witness: the context was returned with a metrics environment, its init
\* goroutine has finished and Close was not called.
C34_Witness ==
    /\ envRet = "ok"
    /\ metricsEnv # NoMetricsEnv
    /\ initPc = "done"
    /\ closeCalls = 0
    /\ metricsReg = [added |-> 1, removed |-> 0]

\* C31: the store queries handed to the env streams never fail the caller: a query
\* made at any time after the env streams were constructed, the time before line 110
\* assigned the store adapter included, while the underlying store does not exist
\* yet, does not panic; IsInitialized returns false and GetAll an empty result with a
\* nil error.
C31_StoreQueriesNeverPanic ==
    (storeQuery # NoQuery /\ storeQuery.store = "none") =>
        storeQuery.result =
            IF storeQuery.method = "IsInitialized" THEN "false" ELSE "empty, nil error"

\* C32: every context NewEnvContext returned successfully has a non-empty server SDK
\* key, a configuration with an empty one being refused with an error, and the
\* credentials of a context never change after its construction.
C32_SDKKeyAlwaysPresent ==
    /\ [](\A e \in EnvNames : ctx[e].pc = "ok" => GetCredentials(e).SDKKey # "")
    /\ [][\A e \in EnvNames :
            ctx[e].pc # "none" => ctx'[e].credentials = ctx[e].credentials]_vars

\* C33: two distinct environments created on the same publishers never bind the same
\* topic on one publisher, also when an optional credential is absent.
C33_TopicsDistinctPerPublisher ==
    \A e1 \in EnvNames :
        \A e2 \in EnvNames \ {e1} :
            \A h1 \in ctx[e1].handlers, h2 \in ctx[e2].handlers :
                h1.publisher = h2.publisher => h1.topic # h2.topic

====
